---- MODULE Spec2Model ----
(***************************************************************************)
(* A model of the oasis-amqp codec stack (ser.rs, de.rs, amqp.rs, sasl.rs, *)
(* proto.rs, the amqp attribute macro) and of the protocol driver          *)
(* (proto.rs Client, corda-rpc client.rs Client).                          *)
(*                                                                         *)
(* Bytes are integers 0..255, byte strings are sequences of them.  Rust    *)
(* values are modelled by: integers; TRUE/FALSE; byte sequences for &str,  *)
(* &[u8], Bytes; <<>> / <<v>> for Option; sequences for Vec; sequences of  *)
(* <<k, v>> pairs (in iteration order) for HashMap; the sequence of field  *)
(* values, in declaration order, for a struct; the 0-based variant index   *)
(* for a field-less enum; [var |-> name, val |-> inner] for an enum with   *)
(* newtype variants.  TLC integers are 32-bit: every number of the model   *)
(* stays below 2^31.                                                       *)
(***************************************************************************)
EXTENDS Integers, Sequences, FiniteSets, TLC

VARIABLES
  cpc,      \* codec pipeline: position ("start", "encoded", "decoded")
  cframe,   \* codec pipeline: the Frame handed to Frame::to_vec
  cbytes,   \* codec pipeline: result of Frame::to_vec
  cres,     \* codec pipeline: result of Codec::decode on the bytes
  sframes,  \* byte stream: the headers and frames the peer writes, in order
  swire,    \* byte stream: the bytes that have not arrived yet
  sbuf,     \* byte stream: the BytesMut that Codec::decode reads from
  sout,     \* byte stream: the frames Codec::decode has yielded, in order
  sres,     \* byte stream: result of the last Codec::decode call
  program,  \* which client the program uses: "amqp" (oasis_amqp::Client)
            \*   or "corda" (corda_rpc::Client)
  pc,       \* the await the task is at, or "idle", "panicked", "exited"
  caller,   \* who called the running driver operation: "app", "new", "call"
  op,       \* the driver operation that is running or has just returned
  arg,      \* the Frame the running operation has been called to send
  result,   \* outcome of the last driver operation: "none", "ok", "err", "panic"
  sent,     \* frames written to the transport, in order: [frame, rx, call],
            \*   rx the number of items read before, call the call number
  rxn,      \* number of items transport.next() has yielded so far
  opRx,     \* the items transport.next() yielded to the running operation
  io,       \* transport: "up", "eof" (peer closed: reads yield None) or "down"
  unexpected, \* number of items the peer sent that the protocol does not
            \*   foresee at that point
  errSeen,  \* a Close, Detach or rejecting Disposition has been read
  okAfterErr, \* a driver operation has returned Ok after errSeen was set
  ops,      \* number of driver operations the program has called
  newResult,  \* outcome of corda_rpc Client::new: "none", "ok", "err"
  callResult, \* outcome of the last Client::call: "none", "ok", "err", "panic"
  calls,    \* number of Client::call invocations started
  reply,    \* the item the last next() / Client::call returned
  uuids,    \* number of Uuid::new_v4() values drawn so far
  requests, \* the requests built by Client::call, in order
  rcvName   \* rcv_queue_name of the running call

pvars == <<cpc, cframe, cbytes, cres>>
svars == <<sframes, swire, sbuf, sout, sres>>
cvars == <<cpc, cframe, cbytes, cres, sframes, swire, sbuf, sout, sres>>
dvars == <<program, pc, caller, op, arg, result, sent, rxn, opRx, io, unexpected,
           errSeen, okAfterErr, ops, newResult, callResult, calls, reply, uuids,
           requests, rcvName>>
vars == <<cpc, cframe, cbytes, cres, sframes, swire, sbuf, sout, sres, program, pc, caller, op, arg, result, sent, rxn,
          opRx, io, unexpected, errSeen, okAfterErr, ops, newResult, callResult,
          calls, reply, uuids, requests, rcvName>>

----------------------------------------------------------------------------
(* Byte helpers *)

Take(s, n) == SubSeq(s, 1, n)
Drop(s, n) == SubSeq(s, n + 1, Len(s))

\* uN::to_be_bytes
BE16(n) == << (n \div 256) % 256, n % 256 >>
BE32(n) == << (n \div 16777216) % 256, (n \div 65536) % 256, (n \div 256) % 256, n % 256 >>
BE64(n) == <<0, 0, 0, 0>> \o BE32(n)

\* uN::from_be_bytes
RECURSIVE FromBE(_)
FromBE(bs) == IF bs = <<>> THEN 0 ELSE FromBE(Take(bs, Len(bs) - 1)) * 256 + bs[Len(bs)]

\* iN::from_be_bytes (two's complement)
SignedFromBE(bs) ==
  IF bs[1] >= 128 THEN FromBE(<<bs[1] - 256>> \o Drop(bs, 1)) ELSE FromBE(bs)

\* the decimal digits of n, in ASCII (n >= 0)
RECURSIVE Base10Digits(_)
Base10Digits(n) ==
  IF n < 10 THEN <<48 + n>> ELSE Base10Digits(n \div 10) \o <<48 + (n % 10)>>

\* str::from_utf8 succeeds; the byte strings of the model are single-byte
\* characters, so a byte of 128 or more is a malformed sequence
Utf8Valid(bs) == \A i \in 1..Len(bs) : bs[i] < 128

----------------------------------------------------------------------------
(* Descriptors of the described types: the two arguments of                *)
(* #[amqp(descriptor(name, code))], and the variant names serde gives the  *)
(* field-less enums (after rename_all).  Names are ASCII byte strings.     *)

DescribedName(s) ==
  CASE s = "Open" -> <<97,109,113,112,58,111,112,101,110,58,108,105,115,116>>   \* amqp:open:list
    [] s = "Begin" -> <<97,109,113,112,58,98,101,103,105,110,58,108,105,115,116>>   \* amqp:begin:list
    [] s = "Attach" -> <<97,109,113,112,58,97,116,116,97,99,104,58,108,105,115,116>>   \* amqp:attach:list
    [] s = "Flow" -> <<97,109,113,112,58,102,108,111,119,58,108,105,115,116>>   \* amqp:flow:list
    [] s = "Transfer" -> <<97,109,113,112,58,116,114,97,110,115,102,101,114,58,108,105,115,116>>   \* amqp:transfer:list
    [] s = "Disposition" -> <<97,109,113,112,58,100,105,115,112,111,115,105,116,105,111,110,58,108,105,115,116>>   \* amqp:disposition:list
    [] s = "Detach" -> <<97,109,113,112,58,100,101,116,97,99,104,58,108,105,115,116>>   \* amqp:detach:list
    [] s = "Close" -> <<97,109,113,112,58,99,108,111,115,101,58,108,105,115,116>>   \* amqp:close:list
    [] s = "Error" -> <<97,109,113,112,58,101,114,114,111,114,58,108,105,115,116>>   \* amqp:error:list
    [] s = "Received" -> <<97,109,113,112,58,114,101,99,101,105,118,101,100,58,108,105,115,116>>   \* amqp:received:list
    [] s = "Accepted" -> <<97,109,113,112,58,97,99,99,101,112,116,101,100,58,108,105,115,116>>   \* amqp:accepted:list
    [] s = "Rejected" -> <<97,109,113,112,58,114,101,106,101,99,116,101,100,58,108,105,115,116>>   \* amqp:rejected:list
    [] s = "Released" -> <<97,109,113,112,58,114,101,108,101,97,115,101,100,58,108,105,115,116>>   \* amqp:released:list
    [] s = "Modified" -> <<97,109,113,112,58,109,111,100,105,102,105,101,100,58,108,105,115,116>>   \* amqp:modified:list
    [] s = "Source" -> <<97,109,113,112,58,115,111,117,114,99,101,58,108,105,115,116>>   \* amqp:source:list
    [] s = "Target" -> <<97,109,113,112,58,116,97,114,103,101,116,58,108,105,115,116>>   \* amqp:target:list
    [] s = "Declared" -> <<97,109,113,112,58,100,101,99,108,97,114,101,100,58,108,105,115,116>>   \* amqp:declared:list
    [] s = "TransactionalState" -> <<97,109,113,112,58,116,114,97,110,115,97,99,116,105,111,110,97,108,45,115,116,97,116,101,58,108,105,115,116>>   \* amqp:transactional-state:list
    [] s = "Mechanisms" -> <<97,109,113,112,58,115,97,115,108,45,109,101,99,104,97,110,105,115,109,115,58,108,105,115,116>>   \* amqp:sasl-mechanisms:list
    [] s = "Init" -> <<97,109,113,112,58,115,97,115,108,45,105,110,105,116,58,108,105,115,116>>   \* amqp:sasl-init:list
    [] s = "Outcome" -> <<97,109,113,112,58,115,97,115,108,45,111,117,116,99,111,109,101,58,108,105,115,116>>   \* amqp:sasl-outcome:list
    [] s = "Header" -> <<97,109,113,112,58,104,101,97,100,101,114,58,108,105,115,116>>   \* amqp:header:list
    [] s = "DeliveryAnnotations" -> <<97,109,113,112,58,100,101,108,105,118,101,114,121,45,97,110,110,111,116,97,116,105,111,110,115,58,109,97,112>>   \* amqp:delivery-annotations:map
    [] s = "MessageAnnotations" -> <<97,109,113,112,58,109,101,115,115,97,103,101,45,97,110,110,111,116,97,116,105,111,110,115,58,109,97,112>>   \* amqp:message-annotations:map
    [] s = "Properties" -> <<97,109,113,112,58,112,114,111,112,101,114,116,105,101,115,58,108,105,115,116>>   \* amqp:properties:list
    [] s = "ApplicationProperties" -> <<97,109,113,112,58,97,112,112,108,105,99,97,116,105,111,110,45,112,114,111,112,101,114,116,105,101,115,58,109,97,112>>   \* amqp:application-properties:map
    [] s = "Data" -> <<97,109,113,112,58,100,97,116,97,58,98,105,110,97,114,121>>   \* amqp:data:binary
    [] s = "Sequence" -> <<97,109,113,112,58,97,109,113,112,45,115,101,113,117,101,110,99,101,58,108,105,115,116>>   \* amqp:amqp-sequence:list
    [] s = "Value" -> <<97,109,113,112,58,118,97,108,117,101,58,42>>   \* amqp:value:*
    [] s = "Footer" -> <<97,109,113,112,58,102,111,111,116,101,114,58,109,97,112>>   \* amqp:footer:map

DescribedCode(s) ==
  CASE s = "Open" -> 16
    [] s = "Begin" -> 17
    [] s = "Attach" -> 18
    [] s = "Flow" -> 19
    [] s = "Transfer" -> 20
    [] s = "Disposition" -> 21
    [] s = "Detach" -> 22
    [] s = "Close" -> 24
    [] s = "Error" -> 29
    [] s = "Received" -> 35
    [] s = "Accepted" -> 36
    [] s = "Rejected" -> 37
    [] s = "Released" -> 38
    [] s = "Modified" -> 39
    [] s = "Source" -> 40
    [] s = "Target" -> 41
    [] s = "Declared" -> 51
    [] s = "TransactionalState" -> 52
    [] s = "Mechanisms" -> 64
    [] s = "Init" -> 65
    [] s = "Outcome" -> 68
    [] s = "Header" -> 112
    [] s = "DeliveryAnnotations" -> 113
    [] s = "MessageAnnotations" -> 114
    [] s = "Properties" -> 115
    [] s = "ApplicationProperties" -> 116
    [] s = "Data" -> 117
    [] s = "Sequence" -> 118
    [] s = "Value" -> 119
    [] s = "Footer" -> 120

MechanismVariants == <<<<65,78,79,78,89,77,79,85,83>>, <<80,76,65,73,78>>, <<83,67,82,65,77,95,83,72,65,49>>>>   \* ANONYMOUS, PLAIN, SCRAM_SHA1
CodeVariants == <<<<79,107>>, <<65,117,116,104>>, <<83,121,115>>, <<83,121,115,80,101,114,109>>, <<83,121,115,84,101,109,112>>>>   \* Ok, Auth, Sys, SysPerm, SysTemp
SenderSettleModeVariants == <<<<85,110,115,101,116,116,108,101,100>>, <<83,101,116,116,108,101,100>>, <<77,105,120,101,100>>>>   \* Unsettled, Settled, Mixed
ReceiverSettleModeVariants == <<<<70,105,114,115,116>>, <<83,101,99,111,110,100>>>>   \* First, Second
ExpiryPolicyVariants == <<<<108,105,110,107,45,100,101,116,97,99,104>>, <<115,101,115,115,105,111,110,45,101,110,100>>, <<99,111,110,110,101,99,116,105,111,110,45,99,108,111,115,101>>, <<110,101,118,101,114>>>>   \* link-detach, session-end, connection-close, never
DistributionModeVariants == <<<<109,111,118,101>>, <<99,111,112,121>>>>   \* move, copy
RoleVariants == <<<<83,101,110,100,101,114>>, <<82,101,99,101,105,118,101,114>>>>   \* Sender, Receiver
TerminusDurabilityVariants == <<<<78,111,110,101>>, <<67,111,110,102,105,103,117,114,97,116,105,111,110>>, <<85,110,115,101,116,116,108,101,100,83,116,97,116,101>>>>   \* None, Configuration, UnsettledState

----------------------------------------------------------------------------
(* The wire types: what serde sees of each Rust type of amqp.rs / sasl.rs  *)

TBool == [t |-> "bool"]
TU8 == [t |-> "u8"]
TU16 == [t |-> "u16"]
TU32 == [t |-> "u32"]
TU64 == [t |-> "u64"]
TI8 == [t |-> "i8"]
TI16 == [t |-> "i16"]
TI32 == [t |-> "i32"]
TI64 == [t |-> "i64"]
TStr == [t |-> "str"]
TBytes == [t |-> "bytes"]
TUnit == [t |-> "unit"]
TAny == [t |-> "any"]
\* a Rust tuple (A, B): serde's serialize_tuple / deserialize_tuple
TTuple == [t |-> "tuple"]
Opt(ty) == [t |-> "opt", of |-> ty]
Vec(ty) == [t |-> "seq", of |-> ty]
TMap(k, v) == [t |-> "map", k |-> k, v |-> v]
\* a struct carrying #[amqp(descriptor(..))]
Described(name) == [t |-> "described", name |-> name]
\* an enum carrying #[amqp]: newtype variants over described structs
NEnum(name) == [t |-> "nenum", name |-> name]
\* corda-rpc's Try<T, E>, with the parameters NetworkMapSnapshot gives it
TTry == [t |-> "try"]
\* a field-less enum; ser is what its Serialize impl calls
UnitEnum(name, variants, ser) ==
  [t |-> "uenum", name |-> name, variants |-> variants, ser |-> ser]

Mechanism == UnitEnum("Mechanism", MechanismVariants, "unit_variant")
Code == UnitEnum("Code", CodeVariants, "unit_variant")
Role == UnitEnum("Role", RoleVariants, "bool")
TerminusDurability == UnitEnum("TerminusDurability", TerminusDurabilityVariants, "u32")
DistributionMode == UnitEnum("DistributionMode", DistributionModeVariants, "unit_variant")
ExpiryPolicy == UnitEnum("ExpiryPolicy", ExpiryPolicyVariants, "unit_variant")
SenderSettleMode == UnitEnum("SenderSettleMode", SenderSettleModeVariants, "unit_variant")
ReceiverSettleMode == UnitEnum("ReceiverSettleMode", ReceiverSettleModeVariants, "unit_variant")

\* the variants of the #[amqp] enums, in declaration order
Variants(name) ==
  CASE name = "Performative" ->
         <<"Open", "Begin", "Attach", "Flow", "Transfer", "Disposition", "Detach", "Close">>
    [] name = "Body" -> <<"Data", "Sequence", "Value">>
    [] name = "DeliveryState" ->
         <<"Received", "Accepted", "Rejected", "Released", "Modified", "Declared",
           "TransactionalState">>
    [] name = "amqp::Outcome" ->
         <<"Received", "Accepted", "Rejected", "Released", "Modified", "Declared">>
    [] name = "sasl::Frame" -> <<"Mechanisms", "Init", "Outcome">>

\* tuple structs with one field: what the field is
NewtypeInner(name) ==
  CASE name = "DeliveryAnnotations" -> TMap(TStr, TStr)
    [] name = "MessageAnnotations" -> TMap(TStr, TAny)
    [] name = "ApplicationProperties" -> TMap(TStr, TAny)
    [] name = "Data" -> TBytes
    [] name = "Value" -> TAny
    [] name = "Footer" -> TMap(TStr, TStr)

IsNewtype(name) ==
  name \in {"DeliveryAnnotations", "MessageAnnotations", "ApplicationProperties",
            "Data", "Value", "Footer"}

\* corda-rpc: the structs of Envelope<Try<amqp::List<NodeInfo>, ()>>, the field
\* types in declaration order
CordaFields(name) ==
  CASE name = "Envelope" -> <<TTry, Described("Schema"), Opt(Described("TransformsSchema"))>>
    [] name = "Schema" -> <<Vec(NEnum("TypeNotation"))>>
    [] name = "TransformsSchema" -> <<>>
    [] name = "Success" -> <<Vec(Described("NodeInfo"))>>
    [] name = "Failure" -> <<TUnit>>
    [] name = "NodeInfo" ->
         <<Vec(Described("NetworkHostAndPort")), Vec(Described("PartyAndCertificate")),
           TI32, TI64>>
    [] name = "NetworkHostAndPort" -> <<TStr, TI32>>
    [] name = "PartyAndCertificate" -> <<Described("CertPath")>>
    [] name = "CertPath" -> <<TBytes, TStr>>

\* structs with named fields: the field types in declaration order
Fields(name) ==
  CASE name = "Open" ->
         <<TStr, Opt(TStr), Opt(TU32), Opt(TU16), Opt(TU32), Opt(Vec(TStr)),
           Opt(Vec(TStr)), Opt(Vec(TStr)), Opt(Vec(TTuple))>>
    [] name = "Begin" ->
         <<Opt(TU16), TU32, TU32, TU32, Opt(TU32), Opt(Vec(TStr)), Opt(Vec(TStr)),
           Opt(Vec(TTuple))>>
    [] name = "Attach" ->
         <<TStr, TU32, Role, Opt(SenderSettleMode), Opt(ReceiverSettleMode),
           Opt(Described("Source")), Opt(Described("Target")), Opt(TMap(TBytes, TU32)),
           Opt(TBool), Opt(TU32), Opt(TU64), Opt(Vec(TStr)), Opt(Vec(TStr)),
           Opt(Vec(TTuple))>>
    [] name = "Flow" ->
         <<Opt(TU32), TU32, TU32, TU32, Opt(TU32), Opt(TU32), Opt(TU32), Opt(TU32),
           Opt(TBool), Opt(TBool), Opt(Vec(TTuple))>>
    [] name = "Transfer" ->
         <<TU32, Opt(TU32), Opt(TBytes), Opt(TU32), Opt(TBool), Opt(TBool),
           Opt(ReceiverSettleMode), Opt(NEnum("DeliveryState")), Opt(TBool), Opt(TBool),
           Opt(TBool)>>
    [] name = "Disposition" ->
         <<Role, TU32, Opt(TU32), Opt(TBool), Opt(NEnum("DeliveryState")), Opt(TBool)>>
    [] name = "Detach" -> <<TU32, Opt(TBool), Opt(Described("Error"))>>
    [] name = "Close" -> <<Opt(Described("Error"))>>
    [] name = "Error" -> <<TStr, TStr, Opt(Vec(TTuple))>>
    [] name = "Source" ->
         <<Opt(TStr), Opt(TerminusDurability), Opt(ExpiryPolicy), Opt(TU32), Opt(TBool),
           Opt(Vec(TTuple)), Opt(DistributionMode), Opt(Vec(TTuple)),
           Opt(NEnum("amqp::Outcome")), Opt(Vec(TStr)), Opt(Vec(TStr))>>
    [] name = "Target" ->
         <<Opt(TStr), Opt(TU32), Opt(ExpiryPolicy), Opt(TU32), Opt(TBool),
           Opt(Vec(TTuple)), Opt(Vec(TStr))>>
    [] name = "Header" -> <<Opt(TBool), Opt(TU8), Opt(TU32), Opt(TBool), Opt(TU32)>>
    [] name = "Properties" ->
         <<Opt(TStr), Opt(TBytes), Opt(TStr), Opt(TStr), Opt(TStr), Opt(TStr), Opt(TStr),
           Opt(TStr), Opt(TI64), Opt(TI64), Opt(TStr), Opt(TU32), Opt(TStr)>>
    [] name = "Mechanisms" -> <<Vec(Mechanism)>>
    [] name = "Init" -> <<Mechanism, Opt(TBytes), Opt(TStr)>>
    [] name = "Outcome" -> <<Code, Opt(TBytes)>>
    [] name \in {"Received", "Accepted", "Rejected", "Released", "Modified", "Declared",
                 "TransactionalState", "Sequence"} -> <<>>
    [] OTHER -> CordaFields(name)

\* the name the attribute macro hands to serde: "<name>|<code in base 10>"
renamed(name) == DescribedName(name) \o <<124>> \o Base10Digits(DescribedCode(name))

----------------------------------------------------------------------------
(* ser.rs: the serializer.  A result is [st, e, out]: st = "ok" with the   *)
(* bytes appended to the output, "err" with the Error, or "panic".         *)

SerOk(bs) == [st |-> "ok", e |-> "", out |-> bs]
SerErr(e) == [st |-> "err", e |-> e, out |-> <<>>]
SerPanic == [st |-> "panic", e |-> "", out |-> <<>>]

\* n < std::u32::MAX, for a length n >= 0
BelowU32Max(n) ==
  \/ n \div 65536 < 65535
  \/ n \div 65536 = 65535 /\ n % 65536 < 65535

serialize_bool(v) == SerOk(<<IF v THEN 65 ELSE 66>>)
serialize_u8(v) == SerOk(<<80, v>>)
serialize_u16(v) == SerOk(<<96>> \o BE16(v))
serialize_u32(v) ==
  IF v = 0 THEN SerOk(<<67>>)
  ELSE IF v < 256 THEN SerOk(<<82, v>>)
  ELSE SerOk(<<112>> \o BE32(v))
serialize_u64(v) ==
  IF v = 0 THEN SerOk(<<68>>)
  ELSE IF v < 256 THEN SerOk(<<83, v>>)
  ELSE SerOk(<<128>> \o BE64(v))
\* v as u8 is v mod 256
serialize_i8(v) == SerOk(<<81, v % 256>>)
serialize_i16(v) == SerOk(<<97>> \o BE16(v % 65536))
serialize_i32(v) ==
  IF v < 256 THEN SerOk(<<84, v % 256>>) ELSE SerOk(<<113>> \o BE32(v))
serialize_i64(v) ==
  IF v < 256 THEN SerOk(<<85, v % 256>>) ELSE SerOk(<<129>> \o BE64(v))
serialize_str(v) ==
  IF Len(v) < 256 THEN SerOk(<<161, Len(v)>> \o v)
  ELSE IF BelowU32Max(Len(v)) THEN SerOk(<<161>> \o BE32(Len(v)) \o v)
  ELSE SerErr("InvalidData")
serialize_bytes(v) ==
  IF Len(v) < 256 THEN SerOk(<<160, Len(v)>> \o v)
  ELSE IF BelowU32Max(Len(v)) THEN SerOk(<<176>> \o BE32(Len(v)) \o v)
  ELSE SerErr("InvalidData")
serialize_unit == SerOk(<<64>>)
serialize_none == serialize_unit
serialize_unit_variant(variant) ==
  IF Len(variant) < 256 THEN SerOk(<<163, Len(variant)>> \o variant)
  ELSE IF BelowU32Max(Len(variant)) THEN SerOk(<<179>> \o BE32(Len(variant)) \o variant)
  ELSE SerErr("InvalidData")
serialize_newtype_struct == SerPanic
serialize_tuple == SerPanic
\* serialize_seq writes nothing of its own
serialize_seq == SerOk(<<>>)
\* serialize_map up to the entries, with the size SerializeMap::end patches
\* in (output.len() - offset - 4: the count field and the entries)
serialize_map(len, entries) ==
  SerOk(<<209>> \o BE32(4 + Len(entries)) \o BE32(len * 2) \o entries)
\* serialize_struct and SerializeStruct::end, likewise
serialize_struct(name, len, fields) ==
  IF ~(Len(name) < 256 /\ len < 256) THEN SerPanic
  ELSE SerOk(<<0, 163, Len(name)>> \o name \o <<208>>
             \o BE32(4 + Len(fields)) \o BE32(len) \o fields)

\* the Serialize impl of Any (derived): which Serializer method each variant reaches
AnyInner(var) ==
  CASE var = "Bool" -> TBool
    [] var = "U8" -> TU8
    [] var = "U16" -> TU16
    [] var = "U32" -> TU32
    [] var = "U64" -> TU64
    [] var = "I8" -> TI8
    [] var = "I16" -> TI16
    [] var = "I32" -> TI32
    [] var = "I64" -> TI64
    [] var = "Bytes" -> TBytes
    [] var = "Symbol" -> TStr
    [] var = "Str" -> TStr

RECURSIVE Ser(_, _), SerAll(_, _, _), SerSeq(_, _, _), SerEntries(_, _, _, _)

\* T::serialize(value, &mut serializer) for a value v of wire type ty
Ser(ty, v) ==
  CASE ty.t = "bool" -> serialize_bool(v)
    [] ty.t = "u8" -> serialize_u8(v)
    [] ty.t = "u16" -> serialize_u16(v)
    [] ty.t = "u32" -> serialize_u32(v)
    [] ty.t = "u64" -> serialize_u64(v)
    [] ty.t = "i8" -> serialize_i8(v)
    [] ty.t = "i16" -> serialize_i16(v)
    [] ty.t = "i32" -> serialize_i32(v)
    [] ty.t = "i64" -> serialize_i64(v)
    [] ty.t = "str" -> serialize_str(v)
    [] ty.t = "bytes" -> serialize_bytes(v)
    [] ty.t = "unit" -> serialize_unit
    [] ty.t = "tuple" -> serialize_tuple
    [] ty.t = "opt" -> IF v = <<>> THEN serialize_none ELSE Ser(ty.of, v[1])
    [] ty.t = "seq" -> SerSeq(ty.of, v, 1)
    [] ty.t = "map" ->
         LET es == SerEntries(ty.k, ty.v, v, 1)
         IN IF es.st # "ok" THEN es ELSE serialize_map(Len(v), es.out)
    [] ty.t = "uenum" ->
         (CASE ty.ser = "unit_variant" -> serialize_unit_variant(ty.variants[v + 1])
            [] ty.ser = "bool" -> serialize_bool(v = 1)
            [] ty.ser = "u32" -> serialize_u32(v))
    [] ty.t = "nenum" -> Ser(Described(v.var), v.val)
    [] ty.t = "any" ->
         IF v.var = "None" THEN serialize_unit_variant(<<78, 111, 110, 101>>)
         ELSE Ser(AnyInner(v.var), v.val)
    [] ty.t = "described" ->
         IF IsNewtype(ty.name) THEN serialize_newtype_struct
         ELSE LET fs == SerAll(Fields(ty.name), v, 1)
              IN IF fs.st # "ok" THEN fs
                 ELSE serialize_struct(renamed(ty.name), Len(Fields(ty.name)), fs.out)

\* the fields of a struct from the i-th on, each through serialize_field
SerAll(tys, vs, i) ==
  IF i > Len(tys) THEN SerOk(<<>>)
  ELSE LET r == Ser(tys[i], vs[i])
       IN IF r.st # "ok" THEN r
          ELSE LET rest == SerAll(tys, vs, i + 1)
               IN IF rest.st # "ok" THEN rest ELSE SerOk(r.out \o rest.out)

\* the elements of a Vec from the i-th on, each through serialize_element
SerSeq(ty, vs, i) ==
  IF i > Len(vs) THEN serialize_seq
  ELSE LET r == Ser(ty, vs[i])
       IN IF r.st # "ok" THEN r
          ELSE LET rest == SerSeq(ty, vs, i + 1)
               IN IF rest.st # "ok" THEN rest ELSE SerOk(r.out \o rest.out)

\* the entries of a map from the i-th on: serialize_key, serialize_value
SerEntries(kt, vt, es, i) ==
  IF i > Len(es) THEN SerOk(<<>>)
  ELSE LET k == Ser(kt, es[i][1])
           v == Ser(vt, es[i][2])
       IN IF k.st # "ok" THEN k
          ELSE IF v.st # "ok" THEN v
          ELSE LET rest == SerEntries(kt, vt, es, i + 1)
               IN IF rest.st # "ok" THEN rest ELSE SerOk(k.out \o v.out \o rest.out)

\* ser::into_bytes
into_bytes(ty, v) == Ser(ty, v)

----------------------------------------------------------------------------
(* de.rs: the deserializer.  A Deserializer is [in, con, any]: the input   *)
(* left, the constructor of the enclosing array (-1 for None) and the any  *)
(* flag.  A result is [st, e, v, d]: st = "ok" with the value and the      *)
(* deserializer after the call, "err" with the Error, or "panic" (an index *)
(* or split past the end of a slice, a failed assert_eq!, unimplemented!). *)
(* The inputs explored keep 64-bit values within TLC's integers.           *)

from_bytes(input) == [in |-> input, con |-> -1, any |-> FALSE]
DOk(v, d) == [st |-> "ok", e |-> "", v |-> v, d |-> d]
DErr(e) == [st |-> "err", e |-> e, v |-> <<>>, d |-> from_bytes(<<>>)]
DPanic == [st |-> "panic", e |-> "", v |-> <<>>, d |-> from_bytes(<<>>)]

peek(d) == IF d.in = <<>> THEN DErr("UnexpectedEnd") ELSE DOk(d.in[1], d)

\* &self.input[1..] on an empty slice panics
next(d) == IF d.in = <<>> THEN DPanic ELSE DOk(d.in[1], [d EXCEPT !.in = Tail(d.in)])

\* the ? operator: a result that is not Ok ends the function with it,
\* otherwise the function goes on with K
Then(r, K(_)) == IF r.st # "ok" THEN r ELSE K(r)

assume(d, assumed) ==
  Then(next(d), LAMBDA r : IF r.v # assumed THEN DPanic ELSE DOk(<<>>, r.d))

\* self.input.split_at(n), which panics when n > len
split_at(d, n) ==
  IF n < 0 \/ n > Len(d.in) THEN DPanic
  ELSE DOk(Take(d.in, n), [d EXCEPT !.in = Drop(d.in, n)])

\* n bytes read as a big-endian unsigned integer
read_be(d, n) == Then(split_at(d, n), LAMBDA r : DOk(FromBE(r.v), r.d))

\* n bytes read as a big-endian two's complement integer
read_signed_be(d, n) == Then(split_at(d, n), LAMBDA r : DOk(SignedFromBE(r.v), r.d))

read_u32(d) == read_be(d, 4)

peek_constructor(d) == IF d.con # -1 THEN DOk(d.con, d) ELSE peek(d)
next_constructor(d) == IF d.con # -1 THEN DOk(d.con, d) ELSE next(d)

parse_bool(d) ==
  Then(next_constructor(d), LAMBDA c :
    IF c.v = 86 THEN
      Then(next(c.d), LAMBDA b :
        IF b.v = 1 THEN DOk(TRUE, b.d)
        ELSE IF b.v = 0 THEN DOk(FALSE, b.d)
        ELSE DErr("InvalidFormatCode"))
    ELSE IF c.v = 65 THEN DOk(TRUE, c.d)
    ELSE IF c.v = 66 THEN DOk(FALSE, c.d)
    ELSE DErr("InvalidFormatCode"))

parse_u64(d) ==
  Then(next(d), LAMBDA c :
    IF c.v = 68 THEN DOk(0, c.d)
    ELSE IF c.v = 83 THEN next(c.d)
    ELSE IF c.v = 128 THEN read_be(c.d, 8)
    ELSE DErr("InvalidFormatCode"))

parse_bytes(d) ==
  Then(next_constructor(d), LAMBDA c :
  Then(IF c.v \in {160, 163} THEN next(c.d)
       ELSE IF c.v \in {176, 179} THEN read_u32(c.d)
       ELSE DErr("InvalidFormatCode"),
       LAMBDA len : split_at(len.d, len.v)))

Numeric(n) == [k |-> "Numeric", n |-> n, s |-> <<>>]
Symbol(s) == [k |-> "Symbol", n |-> 0, s |-> s]

parse_descriptor(d) ==
  Then(assume(d, 0), LAMBDA a :
  Then(peek(a.d), LAMBDA p :
    IF p.v \in {68, 83, 128} THEN
      Then(parse_u64(a.d), LAMBDA r : DOk(Numeric(r.v), r.d))
    ELSE IF p.v \in {163, 179} THEN
      Then(parse_bytes(a.d), LAMBDA r : DOk(Symbol(r.v), r.d))
    ELSE DErr("InvalidFormatCode")))

\* (size, len, constructor) of a compound; the operands are read left to right
composite(d) ==
  Then(next(d), LAMBDA c :
    IF c.v = 69 THEN DOk([size |-> 0, len |-> 0, con |-> -1], c.d)
    ELSE IF c.v \notin {192, 193, 208, 209, 224, 240} THEN DErr("InvalidFormatCode")
    ELSE
      Then(IF c.v \in {192, 193, 224} THEN next(c.d) ELSE read_u32(c.d), LAMBDA a :
      Then(IF c.v \in {192, 193, 224} THEN next(a.d) ELSE read_u32(a.d), LAMBDA b :
        IF c.v \in {192, 193} THEN DOk([size |-> a.v - 1, len |-> b.v, con |-> -1], b.d)
        ELSE IF c.v \in {208, 209} THEN DOk([size |-> a.v - 4, len |-> b.v, con |-> -1], b.d)
        ELSE IF c.v = 224 THEN
          Then(next(b.d), LAMBDA k : DOk([size |-> a.v - 2, len |-> b.v, con |-> k.v], k.d))
        ELSE
          Then(read_u32(b.d), LAMBDA k :
            DOk([size |-> a.v - 8, len |-> b.v, con |-> k.v], k.d)))))

deserialize_bool(d) == parse_bool(d)

deserialize_u8(d) == Then(assume(d, 80), LAMBDA a : next(a.d))

deserialize_u16(d) == Then(assume(d, 96), LAMBDA a : read_be(a.d, 2))

deserialize_u32(d) ==
  Then(next(d), LAMBDA c :
    IF c.v = 67 THEN DOk(0, c.d)
    ELSE IF c.v = 82 THEN next(c.d)
    ELSE IF c.v = 112 THEN read_u32(c.d)
    ELSE DErr("InvalidFormatCode"))

deserialize_u64(d) == parse_u64(d)

\* self.next()? as i8
deserialize_i8(d) ==
  Then(assume(d, 81), LAMBDA a :
  Then(next(a.d), LAMBDA r : DOk(IF r.v >= 128 THEN r.v - 256 ELSE r.v, r.d)))

deserialize_i16(d) == Then(assume(d, 97), LAMBDA a : read_signed_be(a.d, 2))

\* 0x54: self.next()? as i32, a u8 widened without sign
deserialize_i32(d) ==
  Then(next(d), LAMBDA c :
    IF c.v = 84 THEN next(c.d)
    ELSE IF c.v = 113 THEN read_signed_be(c.d, 4)
    ELSE DErr("InvalidFormatCode"))

deserialize_i64(d) ==
  Then(next(d), LAMBDA c :
    IF c.v = 85 THEN next(c.d)
    ELSE IF c.v \in {129, 131} THEN read_signed_be(c.d, 8)
    ELSE DErr("InvalidFormatCode"))

deserialize_str(d) ==
  Then(next_constructor(d), LAMBDA c :
  Then(IF c.v \in {161, 163} THEN next(c.d)
       ELSE IF c.v \in {177, 179} THEN read_u32(c.d)
       ELSE DErr("InvalidFormatCode"),
       LAMBDA len :
  Then(split_at(len.d, len.v), LAMBDA r :
    IF Utf8Valid(r.v) THEN r ELSE DErr("InvalidData"))))

deserialize_bytes(d) == parse_bytes(d)

deserialize_unit(d) == assume(d, 64)

deserialize_tuple == DPanic

\* what deserialize_identifier hands the visitor: visit_u64(n) or visit_bytes(b)
VisitU64(n) == [k |-> "u64", n |-> n, b |-> <<>>]
VisitBytes(b) == [k |-> "bytes", n |-> 0, b |-> b]

deserialize_identifier(d) ==
  Then(peek_constructor(d), LAMBDA c :
    IF d.any THEN DOk(VisitU64(c.v), d)
    ELSE IF c.v \in {86, 65, 66} THEN
      Then(parse_bool(d), LAMBDA b : DOk(VisitU64(IF b.v THEN 1 ELSE 0), b.d))
    ELSE IF c.v = 80 THEN
      Then(assume(d, 80), LAMBDA a :
      Then(next(a.d), LAMBDA r : DOk(VisitU64(r.v), r.d)))
    ELSE IF c.v \in {67, 82, 112} THEN
      \* the format code itself is not consumed before read_u32
      Then(read_u32(d), LAMBDA r : DOk(VisitU64(r.v), r.d))
    ELSE IF c.v \in {68, 83, 128} THEN
      Then(deserialize_u64(d), LAMBDA r : DOk(VisitU64(r.v), r.d))
    ELSE IF c.v \in {163, 179} THEN
      Then(deserialize_bytes(d), LAMBDA r : DOk(VisitBytes(r.v), r.d))
    ELSE DErr("InvalidFormatCode"))

\* serde's derived field visitor of a field-less enum: the variant index
\* (visit_u64) or the variant name (visit_bytes); anything else is
\* Error::custom, that is Error::Deserialization
UnitEnumField(variants, id) ==
  IF id.k = "u64" THEN
    IF id.n < Len(variants) THEN [st |-> "ok", v |-> id.n] ELSE [st |-> "err", v |-> 0]
  ELSE IF \E i \in 1..Len(variants) : variants[i] = id.b
       THEN [st |-> "ok", v |-> (CHOOSE i \in 1..Len(variants) : variants[i] = id.b) - 1]
       ELSE [st |-> "err", v |-> 0]

\* the field visitor the amqp macro generates for an enum: visit_u64 matches
\* Some(value) with each variant type's CODE, visit_bytes with its NAME
enum_serde(name, id) ==
  LET vs == Variants(name)
      hit(i) == IF id.k = "u64" THEN DescribedCode(vs[i]) = id.n
                ELSE DescribedName(vs[i]) = id.b
  IN IF \E i \in 1..Len(vs) : hit(i)
     THEN [st |-> "ok", v |-> vs[CHOOSE i \in 1..Len(vs) : hit(i) /\ \A j \in 1..(i - 1) : ~hit(j)]]
     ELSE [st |-> "err", v |-> ""]

\* the field visitor of Any: the constructor code names the variant
AnyType(id) ==
  IF id.k # "u64" THEN [st |-> "err", v |-> ""]
  ELSE IF id.n = 64 THEN [st |-> "ok", v |-> "None"]
  ELSE IF id.n = 81 THEN [st |-> "ok", v |-> "I8"]
  ELSE IF id.n = 84 THEN [st |-> "ok", v |-> "I32"]
  ELSE IF id.n \in {85, 129} THEN [st |-> "ok", v |-> "I64"]
  ELSE IF id.n = 161 THEN [st |-> "ok", v |-> "Str"]
  ELSE IF id.n = 176 THEN [st |-> "ok", v |-> "Bytes"]
  ELSE [st |-> "err", v |-> ""]

\* Success::<T>::NAME and Failure::<E>::NAME
SuccessName == <<110,101,116,46,99,111,114,100,97,58,101,43,113,115,87,47,99,74,52,97,106,71,112,98,56,89,107,74,87,66,49,65,61,61>>   \* net.corda:e+qsW/cJ4ajGpb8YkJWB1A==
FailureName == <<110,101,116,46,99,111,114,100,97,58,63,63,63,63,63,63,63,63,63,63,63,63,63,63,63,63,63,63,63,63,63,63,63,63>>   \* net.corda:????????????????????????

\* the field visitor of Try: visit_bytes alone, which matches the NAME of
\* Success and of Failure; serde's default visit_u64 refuses the type
Try_FieldVisitor(id) ==
  IF id.k = "bytes" /\ id.b = SuccessName THEN [st |-> "ok", v |-> "Success"]
  ELSE IF id.k = "bytes" /\ id.b = FailureName THEN [st |-> "ok", v |-> "Failure"]
  ELSE [st |-> "err", v |-> ""]

\* the variant the enum's field visitor selects for the identifier; a
\* visitor's Error::custom is Error::Deserialization
VariantOf(ty, id, d) ==
  LET f == CASE ty.t = "uenum" -> UnitEnumField(ty.variants, id)
             [] ty.t = "nenum" -> enum_serde(ty.name, id)
             [] ty.t = "any" -> AnyType(id)
             [] ty.t = "try" -> Try_FieldVisitor(id)
  IN IF f.st # "ok" THEN DErr("Deserialization") ELSE DOk(f.v, d)

RECURSIVE De(_, _), DeFields(_, _, _, _), DeElems(_, _, _, _), DeEntries(_, _, _, _, _)
RECURSIVE deserialize_option(_, _), deserialize_seq(_, _), deserialize_map(_, _, _)
RECURSIVE deserialize_struct(_, _), deserialize_enum(_, _)

\* T::deserialize(&mut deserializer) for the wire type ty
De(ty, d) ==
  CASE ty.t = "bool" -> deserialize_bool(d)
    [] ty.t = "u8" -> deserialize_u8(d)
    [] ty.t = "u16" -> deserialize_u16(d)
    [] ty.t = "u32" -> deserialize_u32(d)
    [] ty.t = "u64" -> deserialize_u64(d)
    [] ty.t = "i8" -> deserialize_i8(d)
    [] ty.t = "i16" -> deserialize_i16(d)
    [] ty.t = "i32" -> deserialize_i32(d)
    [] ty.t = "i64" -> deserialize_i64(d)
    [] ty.t = "str" -> deserialize_str(d)
    [] ty.t = "bytes" -> deserialize_bytes(d)
    [] ty.t = "unit" -> deserialize_unit(d)
    [] ty.t = "tuple" -> deserialize_tuple
    [] ty.t = "opt" -> deserialize_option(ty.of, d)
    [] ty.t = "seq" -> deserialize_seq(ty.of, d)
    [] ty.t = "map" -> deserialize_map(ty.k, ty.v, d)
    [] ty.t \in {"uenum", "nenum", "any", "try"} -> deserialize_enum(ty, d)
    [] ty.t = "described" ->
         \* deserialize_newtype_struct goes straight to the inner value
         IF IsNewtype(ty.name) THEN De(NewtypeInner(ty.name), d)
         ELSE deserialize_struct(ty.name, d)

\* an option that asks for a format code even when no input is left
deserialize_option_peek(ty, d) ==
  Then(peek(d), LAMBDA p :
    IF p.v = 64 THEN Then(assume(d, 64), LAMBDA a : DOk(<<>>, a.d))
    ELSE Then(De(ty, d), LAMBDA r : DOk(<<r.v>>, r.d)))

deserialize_option(ty, d) ==
  IF d.in = <<>> THEN DOk(<<>>, d)
  ELSE IF d.in[1] = 64 THEN Then(assume(d, 64), LAMBDA a : DOk(<<>>, a.d))
  ELSE Then(De(ty, d), LAMBDA r : DOk(<<r.v>>, r.d))

\* Access: next_element_seed for each of the fields from the i-th on
DeFields(tys, d, i, acc) ==
  IF i > Len(tys) THEN DOk(acc, d)
  ELSE Then(De(tys[i], d), LAMBDA r : DeFields(tys, r.d, i + 1, Append(acc, r.v)))

\* Access: next_element_seed, left times
DeElems(ty, d, left, acc) ==
  IF left = 0 THEN DOk(acc, d)
  ELSE Then(De(ty, d), LAMBDA r : DeElems(ty, r.d, left - 1, Append(acc, r.v)))

\* Map: next_key_seed and next_value_seed, left times
DeEntries(kt, vt, d, left, acc) ==
  IF left < 1 THEN DOk(acc, d)
  ELSE Then(De(kt, d), LAMBDA k :
       Then(De(vt, k.d), LAMBDA v :
         DeEntries(kt, vt, v.d, left - 1, Append(acc, <<k.v, v.v>>))))

\* the optional descriptor and the compound header in front of the fields of
\* a struct or the elements of a Vec: the nested deserializer over the
\* compound's bytes (v) and the deserializer behind them (d)
nested(d) ==
  Then(peek(d), LAMBDA p :
  Then(IF p.v = 0 THEN parse_descriptor(d) ELSE DOk(<<>>, d), LAMBDA s :
  Then(composite(s.d), LAMBDA c :
  Then(split_at(c.d, c.v.size), LAMBDA inner :
    DOk([in |-> inner.v, con |-> c.v.con, any |-> FALSE, len |-> c.v.len], inner.d)))))

deserialize_seq(ty, d) ==
  Then(nested(d), LAMBDA n :
  Then(DeElems(ty, [in |-> n.v.in, con |-> n.v.con, any |-> FALSE], n.v.len, <<>>),
       LAMBDA es : DOk(es.v, n.d)))

\* the size field is not used: the entries are read from the deserializer
\* itself.  A size below 4 wraps in a release build and panics where
\* overflow checks are on; the inputs explored hold no such map.
deserialize_map(kt, vt, d) ==
  Then(composite(d), LAMBDA c : DeEntries(kt, vt, c.d, c.v.len \div 2, <<>>))

deserialize_struct(name, d) ==
  Then(nested(d), LAMBDA n :
  Then(DeFields(Fields(name), [in |-> n.v.in, con |-> n.v.con, any |-> FALSE], 1, <<>>),
       LAMBDA fs : DOk(fs.v, n.d)))

\* deserialize_enum, with the visitor of the enum: variant_seed reads the
\* identifier, then unit_variant or newtype_variant_seed reads the content
deserialize_enum(ty, d) ==
  Then(peek_constructor(d), LAMBDA c :
  Then(IF c.v = 0 THEN assume(d, 0)
       ELSE DOk(<<>>, [d EXCEPT !.any = (ty.t = "any")]),
       LAMBDA a :
  Then(deserialize_identifier(a.d), LAMBDA id :
  Then(VariantOf(ty, id.v, id.d), LAMBDA f :
  Then(CASE ty.t = "uenum" -> DOk(<<>>, id.d)
         [] ty.t \in {"nenum", "try"} -> De(Described(f.v), id.d)
         [] ty.t = "any" ->
              IF f.v = "None" THEN deserialize_unit(id.d) ELSE De(AnyInner(f.v), id.d),
       LAMBDA r :
         DOk(IF ty.t = "uenum" THEN f.v ELSE [var |-> f.v, val |-> r.v],
             IF c.v = 0 THEN r.d ELSE [r.d EXCEPT !.any = FALSE]))))))

\* de::deserialize: the value and the input left over
deserialize(ty, bytes) ==
  Then(De(ty, from_bytes(bytes)), LAMBDA r : DOk([val |-> r.v, rest |-> r.d.in], r.d))

----------------------------------------------------------------------------
(* de.rs DescribedReader.  A reader state is [desc, d]: the descriptor     *)
(* read last and the deserializer it reads from.                           *)

\* DescribedReader::next
reader_next(rd) ==
  IF rd.d.in # <<>>
  THEN Then(parse_descriptor(rd.d), LAMBDA r : DOk([desc |-> r.v, d |-> r.d], r.d))
  ELSE DOk(rd, rd.d)

\* DescribedReader::read::<T>, T the described type called name: the result
\* holds the Option<T> and the reader state after the call
reader_read(name, rd, nxt) ==
  IF ~(IF rd.desc.k = "Numeric" THEN DescribedCode(name) = rd.desc.n
       ELSE DescribedName(name) = rd.desc.s)
  THEN DOk([val |-> <<>>, rd |-> rd], rd.d)
  ELSE Then(De(Described(name), rd.d), LAMBDA t :
       Then(IF nxt THEN reader_next([desc |-> rd.desc, d |-> t.d])
            ELSE DOk([desc |-> rd.desc, d |-> t.d], t.d),
            LAMBDA n : DOk([val |-> <<t.v>>, rd |-> n.v], n.d)))

\* Deserializer::reader
reader(d) ==
  Then(parse_descriptor(d), LAMBDA r : DOk([desc |-> r.v, d |-> r.d], r.d))

----------------------------------------------------------------------------
(* proto.rs and amqp.rs: frames.  A Frame is                               *)
(*   [type |-> "Header", protocol |-> "Sasl" or "Amqp"],                   *)
(*   [type |-> "Sasl", frame |-> a sasl::Frame], or                        *)
(*   [type |-> "Amqp", channel, extended_header, performative, message],   *)
(* a Message the record of its seven optional sections.  A frame result is *)
(* [st, e, frame].                                                         *)

AMQP_PROTO_HEADER == <<65, 77, 81, 80, 0, 1, 0, 0>>
SASL_PROTO_HEADER == <<65, 77, 81, 80, 3, 1, 0, 0>>
PROTO_HEADER_LENGTH == 8
AMQP_MAGIC == <<65, 77, 81, 80>>

NoFrame == [type |-> "None"]
FOk(f) == [st |-> "ok", e |-> "", frame |-> f]
FErr(e) == [st |-> "err", e |-> e, frame |-> NoFrame]
FPanic == [st |-> "panic", e |-> "", frame |-> NoFrame]

\* the ? operator on a deserializer result inside a function returning a frame
ThenFrame(r, K(_)) ==
  IF r.st # "ok" THEN [st |-> r.st, e |-> r.e, frame |-> NoFrame] ELSE K(r)

\* Protocol::header
header(p) == IF p = "Sasl" THEN SASL_PROTO_HEADER ELSE AMQP_PROTO_HEADER

\* Protocol::from_bytes
Protocol_from_bytes(bytes) ==
  IF bytes = SASL_PROTO_HEADER THEN FOk([type |-> "Header", protocol |-> "Sasl"])
  ELSE IF bytes = AMQP_PROTO_HEADER THEN FOk([type |-> "Header", protocol |-> "Amqp"])
  ELSE FPanic

\* the sections Frame::to_vec serializes for a message, in its order: each
\* section that is Some, and the body as the Option it is
MessageParts(msg) ==
  (IF msg.header # <<>> THEN << <<Described("Header"), msg.header[1]>> >> ELSE <<>>)
  \o (IF msg.delivery_annotations # <<>>
      THEN << <<Described("DeliveryAnnotations"), msg.delivery_annotations[1]>> >> ELSE <<>>)
  \o (IF msg.message_annotations # <<>>
      THEN << <<Described("MessageAnnotations"), msg.message_annotations[1]>> >> ELSE <<>>)
  \o (IF msg.properties # <<>>
      THEN << <<Described("Properties"), msg.properties[1]>> >> ELSE <<>>)
  \o (IF msg.application_properties # <<>>
      THEN << <<Described("ApplicationProperties"), msg.application_properties[1]>> >>
      ELSE <<>>)
  \o << <<Opt(NEnum("Body")), msg.body>> >>
  \o (IF msg.footer # <<>> THEN << <<Described("Footer"), msg.footer[1]>> >> ELSE <<>>)

\* into_bytes for each of the parts from the i-th on
SerParts(parts, i) ==
  SerAll([j \in 1..Len(parts) |-> parts[j][1]], [j \in 1..Len(parts) |-> parts[j][2]], i)

\* Result::unwrap
unwrap(r) == IF r.st # "ok" THEN SerPanic ELSE r

\* the ? operator on a serializer result
ThenSer(r, K(_)) == IF r.st # "ok" THEN r ELSE K(r)

\* a to_vec whose length field counts the bytes behind the frame header
Frame_to_vec_body(f) ==
  CASE f.type = "Header" -> SerOk(header(f.protocol))
    [] f.type = "Sasl" ->
         ThenSer(unwrap(into_bytes(NEnum("sasl::Frame"), f.frame)), LAMBDA r :
           SerOk(BE32(Len(r.out)) \o <<2, 1, 0, 0>> \o r.out))
    [] f.type = "Amqp" ->
         ThenSer(into_bytes(NEnum("Performative"), f.performative), LAMBDA perf :
         ThenSer(IF f.message = <<>> THEN SerOk(<<>>)
                 ELSE SerParts(MessageParts(f.message[1]), 1),
                 LAMBDA msg :
           SerOk(BE32(Len(perf.out) + Len(msg.out)) \o <<2, 0>>
                 \o BE16(f.channel) \o perf.out \o msg.out)))

\* Frame::to_vec.  The eight header bytes are the length, the data offset 2,
\* the frame type and the channel; extended_header is not written.
Frame_to_vec(f) ==
  CASE f.type = "Header" -> SerOk(header(f.protocol))
    [] f.type = "Sasl" ->
         ThenSer(unwrap(into_bytes(NEnum("sasl::Frame"), f.frame)), LAMBDA r :
           SerOk(BE32(8 + Len(r.out)) \o <<2, 1, 0, 0>> \o r.out))
    [] f.type = "Amqp" ->
         ThenSer(into_bytes(NEnum("Performative"), f.performative), LAMBDA perf :
         ThenSer(IF f.message = <<>> THEN SerOk(<<>>)
                 ELSE SerParts(MessageParts(f.message[1]), 1),
                 LAMBDA msg :
           SerOk(BE32(8 + Len(perf.out) + Len(msg.out)) \o <<2, 0>>
                 \o BE16(f.channel) \o perf.out \o msg.out)))

\* the message part of amqp::Frame::decode
Message_decode(buf) ==
  Then(reader(from_bytes(buf)), LAMBDA r0 :
  Then(reader_read("Header", r0.v, TRUE), LAMBDA h :
  Then(reader_read("DeliveryAnnotations", h.v.rd, TRUE), LAMBDA da :
  Then(reader_read("MessageAnnotations", da.v.rd, TRUE), LAMBDA ma :
  Then(reader_read("Properties", ma.v.rd, TRUE), LAMBDA pr :
  Then(reader_read("ApplicationProperties", pr.v.rd, FALSE), LAMBDA ap :
  Then(De(NEnum("Body"), ap.v.rd.d), LAMBDA body :
  Then(reader_next([desc |-> ap.v.rd.desc, d |-> body.d]), LAMBDA nx :
  Then(reader_read("Footer", nx.v, FALSE), LAMBDA ft :
    DOk([header |-> h.v.val, delivery_annotations |-> da.v.val,
         message_annotations |-> ma.v.val, properties |-> pr.v.val,
         application_properties |-> ap.v.val, body |-> <<body.v>>,
         footer |-> ft.v.val], ft.d))))))))))

\* amqp::Frame::decode
amqp_Frame_decode(doff, buf) ==
  IF Len(buf) < 2 \/ Len(buf) - 2 < doff - 2 THEN FPanic
  ELSE
    ThenFrame(deserialize(NEnum("Performative"), Drop(buf, doff)), LAMBDA r :
    ThenFrame(IF r.v.rest # <<>> THEN Message_decode(r.v.rest) ELSE DOk(<<>>, r.d),
              LAMBDA m :
      FOk([type |-> "Amqp",
           channel |-> FromBE(Take(buf, 2)),
           extended_header |-> IF doff > 2 THEN <<SubSeq(buf, 3, doff)>> ELSE <<>>,
           performative |-> r.v.val,
           message |-> IF r.v.rest # <<>> THEN <<m.v>> ELSE <<>>])))

\* Frame::decode
Frame_decode(buf) ==
  IF Len(buf) < 4 THEN FPanic
  ELSE IF Take(buf, 4) = AMQP_MAGIC THEN Protocol_from_bytes(buf)
  ELSE IF buf[1] < 2 THEN FErr("InvalidData")
  ELSE IF buf[2] = 0 THEN amqp_Frame_decode(buf[1], Drop(buf, 2))
  ELSE IF buf[2] = 1 THEN
    IF SubSeq(buf, 3, 4) # <<0, 0>> THEN FPanic
    ELSE ThenFrame(deserialize(NEnum("sasl::Frame"), Drop(buf, 4)), LAMBDA r :
           IF r.v.rest # <<>> THEN FErr("TrailingCharacters")
           ELSE FOk([type |-> "Sasl", frame |-> r.v.val]))
  ELSE FErr("InvalidData")

\* a cut that takes the length prefix for the length of what follows it
Codec_split_body(src) ==
  IF Take(src, 4) = AMQP_MAGIC /\ Len(src) >= PROTO_HEADER_LENGTH
  THEN [len |-> PROTO_HEADER_LENGTH, at |-> 0]
  ELSE [len |-> FromBE(Take(src, 4)) + 4, at |-> 4]

\* the frame Codec::decode cuts from the front of src: the eight bytes of a
\* protocol header, or the bytes behind the 4-byte length; split_off(4)
\* panics when the length is below 4
Codec_split(src) ==
  IF Take(src, 4) = AMQP_MAGIC /\ Len(src) >= PROTO_HEADER_LENGTH
  THEN [len |-> PROTO_HEADER_LENGTH, at |-> 0]
  ELSE [len |-> FromBE(Take(src, 4)), at |-> 4]

\* BytesFrame { bytes, frame } or the error, with the buffer left
Decoded(r, src) == [st |-> r.st, e |-> r.e, frame |-> r.frame, src |-> src]

\* a decode that reads the frame off a slice and leaves the buffer alone
Codec_decode_slice(src) ==
  IF Len(src) < 4 THEN [st |-> "none", e |-> "", frame |-> NoFrame, src |-> src]
  ELSE IF Len(src) < Codec_split(src).len
  THEN [st |-> "none", e |-> "", frame |-> NoFrame, src |-> src]
  ELSE IF Codec_split(src).len < Codec_split(src).at
  THEN [st |-> "panic", e |-> "", frame |-> NoFrame, src |-> src]
  ELSE Decoded(Frame_decode(SubSeq(src, Codec_split(src).at + 1, Codec_split(src).len)),
               src)

\* a decode that takes the length prefix off the buffer before it finds the
\* frame incomplete
Codec_decode_prefix(src) ==
  IF Len(src) < 4 THEN [st |-> "none", e |-> "", frame |-> NoFrame, src |-> src]
  ELSE IF Len(src) < Codec_split(src).len
  THEN [st |-> "none", e |-> "", frame |-> NoFrame, src |-> Drop(src, 4)]
  ELSE IF Codec_split(src).len < Codec_split(src).at
  THEN [st |-> "panic", e |-> "", frame |-> NoFrame, src |-> src]
  ELSE Decoded(Frame_decode(SubSeq(src, Codec_split(src).at + 1, Codec_split(src).len)),
               Drop(src, Codec_split(src).len))

\* Codec::decode on the buffer src: [st, e, frame, src], st = "none" for
\* Ok(None), and src the buffer after the call
Codec_decode(src) ==
  IF Len(src) < 4 THEN [st |-> "none", e |-> "", frame |-> NoFrame, src |-> src]
  ELSE IF Len(src) < Codec_split(src).len
  THEN [st |-> "none", e |-> "", frame |-> NoFrame, src |-> src]
  ELSE IF Codec_split(src).len < Codec_split(src).at
  THEN [st |-> "panic", e |-> "", frame |-> NoFrame, src |-> src]
  ELSE Decoded(Frame_decode(SubSeq(src, Codec_split(src).at + 1, Codec_split(src).len)),
               Drop(src, Codec_split(src).len))

\* Codec::encode: the bytes put into dst
Codec_encode(item) == unwrap(Frame_to_vec(item))

----------------------------------------------------------------------------
(* Values of the frame types, as the callers build them.                   *)

\* n fields left at None
Nones(n) == [i \in 1..n |-> <<>>]

\* amqp::Open { container_id, ..Default::default() }
Open(container_id) == <<container_id>> \o Nones(8)

\* the amqp::Begin of Client::begin
Begin == <<<<>>, 1, 8, 8>> \o Nones(4)

\* amqp::Source { address: Some(address), ..Default::default() }
Source(address) == <<<<address>>>> \o Nones(10)

\* amqp::Target { address: Some(address), ..Default::default() }
Target(address) == <<<<address>>>> \o Nones(6)

\* Role as the variant index
Sender == 0
Receiver == 1

\* the amqp::Attach both Client::new and Client::call build: every field
\* None but name, handle, role, source, target and initial_delivery_count
Attach(name, handle, role, source, target, initial_delivery_count) ==
  <<name, handle, role, <<>>, <<>>, <<Source(source)>>, <<Target(target)>>, <<>>, <<>>,
    initial_delivery_count, <<>>, <<>>, <<>>, <<>>>>

\* the amqp::Flow of Client::call
Flow == <<<<1>>, 2147483647, 1, 2147483647, <<1>>, <<0>>, <<1000>>, <<>>, <<>>, <<>>, <<>>>>

\* amqp::Transfer { handle: 0, delivery_id: Some(0), delivery_tag,
\*                  message_format: Some(0), ..Default::default() }
Transfer(delivery_tag) == <<0, <<0>>, <<delivery_tag>>, <<0>>>> \o Nones(7)

\* amqp::Message::default()
Message ==
  [header |-> <<>>, delivery_annotations |-> <<>>, message_annotations |-> <<>>,
   properties |-> <<>>, application_properties |-> <<>>, body |-> <<>>,
   footer |-> <<>>]

\* amqp::Properties { message_id, user_id, reply_to, ..Default::default() }
Properties(message_id, user_id, reply_to) ==
  <<<<message_id>>, <<user_id>>, <<>>, <<>>, <<reply_to>>>> \o Nones(8)

\* Frame::Amqp(amqp::Frame { channel: 0, extended_header: None, .. })
AmqpFrame(variant, performative, message) ==
  [type |-> "Amqp", channel |-> 0, extended_header |-> <<>>,
   performative |-> [var |-> variant, val |-> performative], message |-> message]

HeaderFrame(protocol) == [type |-> "Header", protocol |-> protocol]

\* Frame::Sasl(sasl::Frame::Init(..)) of Client::login: "\0user\0password"
InitFrame(user, password) ==
  [type |-> "Sasl",
   frame |-> [var |-> "Init", val |-> <<1, <<<<0>> \o user \o <<0>> \o password>>, <<>>>>]]

----------------------------------------------------------------------------
(* The peer.  What it writes reaches the driver through Codec::decode: the *)
(* items transport.next() yields are the decoder's results on these bytes. *)

\* the SASL protocol header
SaslHeaderWire ==
  <<65, 77, 81, 80, 3, 1, 0, 0>>
\* the AMQP protocol header
AmqpHeaderWire ==
  <<65, 77, 81, 80, 0, 1, 0, 0>>
\* sasl-mechanisms [PLAIN, ANONYMOUS]
MechanismsWire ==
  <<0, 0, 0, 34, 2, 1, 0, 0, 0, 83, 64, 192, 21, 1, 224, 18, 2, 163, 5,
  80, 76, 65, 73, 78, 9, 65, 78, 79, 78, 89, 77, 79, 85, 83>>
\* open, container-id foo
OpenWire ==
  <<0, 0, 0, 19, 2, 0, 0, 0, 0, 83, 16, 192, 6, 1, 161, 3, 102, 111, 111>>
\* begin
BeginWire ==
  <<0, 0, 0, 34, 2, 0, 0, 0, 0, 83, 17, 192, 21, 5, 96, 0, 0, 82, 1, 112,
  127, 255, 255, 255, 112, 127, 255, 255, 255, 112, 0, 0, 255, 255>>
\* attach, name l, handle 0, role receiver
AttachWire ==
  <<0, 0, 0, 19, 2, 0, 0, 0, 0, 83, 18, 192, 6, 3, 161, 1, 108, 67, 65>>
\* flow, handle 0, link-credit 100
FlowWire ==
  <<0, 0, 0, 26, 2, 0, 0, 0, 0, 83, 19, 192, 13, 7, 82, 1, 82, 8, 82, 1,
  82, 8, 67, 67, 82, 100>>
\* transfer with a message: empty application-properties, data baz
TransferWire ==
  <<0, 0, 0, 36, 2, 0, 0, 0, 0, 83, 20, 192, 3, 2, 67, 67, 0, 83, 116,
  209, 0, 0, 0, 4, 0, 0, 0, 0, 0, 83, 117, 160, 3, 98, 97, 122>>
\* disposition, settled, accepted
DispositionWire ==
  <<0, 0, 0, 22, 2, 0, 0, 0, 0, 83, 21, 192, 9, 5, 65, 67, 67, 65, 0, 83,
  36, 69>>
\* disposition, state rejected carrying an error
RejectedWire ==
  <<0, 0, 0, 36, 2, 0, 0, 0, 0, 83, 21, 192, 23, 5, 65, 67, 67, 65, 0, 83,
  37, 192, 13, 1, 0, 83, 29, 192, 7, 2, 163, 1, 101, 161, 1, 100>>
\* detach, closed, carrying an error
DetachWire ==
  <<0, 0, 0, 28, 2, 0, 0, 0, 0, 83, 22, 192, 15, 3, 67, 65, 0, 83, 29,
  192, 7, 2, 163, 1, 101, 161, 1, 100>>
\* close carrying an error
CloseWire ==
  <<0, 0, 0, 26, 2, 0, 0, 0, 0, 83, 24, 192, 13, 1, 0, 83, 29, 192, 7, 2,
  163, 1, 101, 161, 1, 100>>
\* a frame of unknown type 2
GarbageWire ==
  <<0, 0, 0, 8, 2, 2, 0, 0>>
\* sasl-outcome, code 0
OutcomeWire0 ==
  <<0, 0, 0, 16, 2, 1, 0, 0, 0, 83, 68, 192, 3, 1, 80, 0>>
\* sasl-outcome, code 1
OutcomeWire1 ==
  <<0, 0, 0, 16, 2, 1, 0, 0, 0, 83, 68, 192, 3, 1, 80, 1>>
\* sasl-outcome, code 2
OutcomeWire2 ==
  <<0, 0, 0, 16, 2, 1, 0, 0, 0, 83, 68, 192, 3, 1, 80, 2>>
\* sasl-outcome, code 3
OutcomeWire3 ==
  <<0, 0, 0, 16, 2, 1, 0, 0, 0, 83, 68, 192, 3, 1, 80, 3>>
\* sasl-outcome, code 4
OutcomeWire4 ==
  <<0, 0, 0, 16, 2, 1, 0, 0, 0, 83, 68, 192, 3, 1, 80, 4>>

PeerWire ==
  { SaslHeaderWire, AmqpHeaderWire, MechanismsWire, OutcomeWire0, OutcomeWire1,
    OutcomeWire2, OutcomeWire3, OutcomeWire4, OpenWire, BeginWire, AttachWire,
    FlowWire, TransferWire, DispositionWire, RejectedWire, DetachWire, CloseWire,
    GarbageWire }

\* Some(Ok(BytesFrame)) or Some(Err(e)) as the stream hands it on
Item(r) == [st |-> r.st, e |-> r.e, frame |-> r.frame]
NoReply == [st |-> "none", e |-> "", frame |-> NoFrame]

PeerItems == { Item(Codec_decode(w)) : w \in PeerWire }

IsHeader(i, protocol) ==
  i.st = "ok" /\ i.frame.type = "Header" /\ i.frame.protocol = protocol
IsSasl(i, variant) ==
  i.st = "ok" /\ i.frame.type = "Sasl" /\ i.frame.frame.var = variant
\* sasl::Code::Ok is variant 0
IsOutcomeOk(i) == IsSasl(i, "Outcome") /\ i.frame.frame.val[1] = 0
IsPerformative(i, variant) ==
  i.st = "ok" /\ i.frame.type = "Amqp" /\ i.frame.performative.var = variant
IsRejected(i) ==
  /\ IsPerformative(i, "Disposition")
  /\ i.frame.performative.val[5] # <<>>
  /\ i.frame.performative.val[5][1].var = "Rejected"

\* a Close or Detach whose error field is set, or a Disposition whose state
\* is the outcome that carries the error
CarriesError(i) ==
  \/ IsPerformative(i, "Close") /\ i.frame.performative.val[1] # <<>>
  \/ IsPerformative(i, "Detach") /\ i.frame.performative.val[3] # <<>>
  \/ IsRejected(i)

\* the item the protocol foresees at the await l
Foreseen(l, i) ==
  CASE l = "login_recv_header" -> IsHeader(i, "Sasl")
    [] l = "login_recv_mechanisms" -> IsSasl(i, "Mechanisms")
    [] l = "login_recv_outcome" -> IsOutcomeOk(i)
    [] l = "login_recv_amqp" -> IsHeader(i, "Amqp")
    [] l = "open_recv" -> IsPerformative(i, "Open")
    [] l = "begin_recv" -> IsPerformative(i, "Begin")
    [] l = "attach_recv" -> IsPerformative(i, "Attach")
    [] l = "attach_recv_flow" -> IsPerformative(i, "Flow")
    [] l = "transfer_recv" -> IsPerformative(i, "Disposition") /\ ~IsRejected(i)
    [] l = "next_recv" -> IsPerformative(i, "Transfer") \/ IsPerformative(i, "Flow")
    [] OTHER -> FALSE

----------------------------------------------------------------------------
(* The protocol driver (proto.rs Client) and the Corda client built on it  *)
(* (client.rs Client).  One action per await of the driver; the program    *)
(* either calls the driver itself or goes through the Corda client.        *)

\* bounds of the exploration
MaxOps == 5
MaxCalls == 2
MaxUnexpected == 1

\* the arguments of the program
User == <<117>>
Password == <<112>>
Container == <<99>>
\* rpc.method() and the encoded rpc.request()
Method == <<109>>
Request == <<0>>
\* the reading of SystemTime::now() in ms, any i64
Timestamp == 1000
\* values of rand::thread_rng().gen::<u64>() & 0xefff_ffff_ffff_ffff
Rands == {7, 8}

\* format!("{:x}", uuid.to_hyphenated()) of the n-th Uuid::new_v4(), which
\* never repeats
UuidStr(n) == <<117>> \o Base10Digits(n)

\* the keys of the application properties of a request
KeyValidatedUser == <<95, 65, 77, 81, 95, 86, 65, 76, 73, 68, 65, 84, 69, 68, 95, 85, 83, 69, 82>>
KeyTag == <<116, 97, 103>>
KeyMethodName == <<109, 101, 116, 104, 111, 100, 45, 110, 97, 109, 101>>
KeyRpcId == <<114, 112, 99, 45, 105, 100>>
KeyRpcIdTimestamp ==
  <<114, 112, 99, 45, 105, 100, 45, 116, 105, 109, 101, 115, 116, 97, 109, 112>>
KeyRpcSessionId == <<114, 112, 99, 45, 115, 101, 115, 115, 105, 111, 110, 45, 105, 100>>
KeyRpcSessionIdTimestamp ==
  <<114, 112, 99, 45, 115, 101, 115, 115, 105, 111, 110, 45, 105, 100, 45, 116, 105, 109, 101, 115, 116, 97, 109, 112>>
KeyDeduplicationSequenceNumber ==
  <<100, 101, 100, 117, 112, 108, 105, 99, 97, 116, 105, 111, 110, 45, 115, 101, 113, 117, 101, 110, 99, 101, 45, 110, 117, 109, 98, 101, 114>>
RpcServer == <<114, 112, 99, 46, 115, 101, 114, 118, 101, 114>>
CordaRpc == <<99, 111, 114, 100, 97, 45, 114, 112, 99, 45>>
RpcClient == <<114, 112, 99, 46, 99, 108, 105, 101, 110, 116, 46>>

AnyStr(v) == [var |-> "Str", val |-> v]
AnyI32(v) == [var |-> "I32", val |-> v]
AnyI64(v) == [var |-> "I64", val |-> v]

\* the properties map of Client::call, in insertion order
properties(rpc_id, rpc_session_id) ==
  << <<KeyValidatedUser, AnyStr(User)>>,
     <<KeyTag, AnyI32(0)>>,
     <<KeyMethodName, AnyStr(Method)>>,
     <<KeyRpcId, AnyStr(rpc_id)>>,
     <<KeyRpcIdTimestamp, AnyI64(Timestamp)>>,
     <<KeyRpcSessionId, AnyStr(rpc_session_id)>>,
     <<KeyRpcSessionIdTimestamp, AnyI64(Timestamp)>>,
     <<KeyDeduplicationSequenceNumber, AnyI64(0)>> >>

\* the value a properties map holds for a key
Lookup(map, key) == map[CHOOSE i \in 1..Len(map) : map[i][1] = key][2]

\* format!("rpc.client.{}.{}", self.user, r)
rcv_queue_name(r) == RpcClient \o User \o <<46>> \o Base10Digits(r)

\* the Attach of Client::new, sender_name made of the n-th uuid
NewAttach(n) ==
  AmqpFrame("Attach", Attach(CordaRpc \o UuidStr(n), 0, Sender, Container, RpcServer, <<0>>),
            <<>>)

\* the Attach of Client::call
CallAttach(name) ==
  AmqpFrame("Attach", Attach(name, 1, Receiver, name, Container, <<>>), <<>>)

\* a request whose message-id is the delivery tag's uuid
CallTransferTagId(n, name) ==
  AmqpFrame("Transfer", Transfer(UuidStr(n + 3)),
    <<[Message EXCEPT
         !.properties = <<Properties(UuidStr(n + 3), User, name)>>,
         !.application_properties = <<properties(UuidStr(n + 1), UuidStr(n + 2))>>,
         !.body = <<[var |-> "Data", val |-> Request]>>]>>)

\* the Transfer and Message of Client::call; the uuids n + 1, n + 2, n + 3
\* are rpc_id, rpc_session_id and delivery_tag
CallTransfer(n, name) ==
  AmqpFrame("Transfer", Transfer(UuidStr(n + 3)),
    <<[Message EXCEPT
         !.properties = <<Properties(UuidStr(n + 1), User, name)>>,
         !.application_properties = <<properties(UuidStr(n + 1), UuidStr(n + 2))>>,
         !.body = <<[var |-> "Data", val |-> Request]>>]>>)

\* an attach that reads the reply alone, whatever the role
no_sender(attach) == FALSE

\* matches!(attach.role, amqp::Role::Sender), attach the frame handed to send
is_sender(attach) == attach.performative.val[3] = Sender

\* a Client::new that begins the session before it opens the connection
NewNextBeginFirst(o) ==
  CASE o = "connect" -> "login"
    [] o = "login" -> "begin"
    [] o = "begin" -> "open"
    [] o = "open" -> "attach"

\* the order in which Client::new calls the driver
NewNext(o) ==
  CASE o = "connect" -> "login"
    [] o = "login" -> "open"
    [] o = "open" -> "begin"
    [] o = "begin" -> "attach"

\* the first await of a driver operation
FirstStep(o) ==
  CASE o = "login" -> "login_send_sasl"
    [] o = "open" -> "open_send"
    [] o = "begin" -> "begin_send"
    [] o = "attach" -> "attach_send"
    [] o = "flow" -> "flow_send"
    [] o = "transfer" -> "transfer_send"
    [] o = "next" -> "next_recv"

\* the frame Client::new hands to the driver operation o
NewArg(o) ==
  CASE o = "open" -> AmqpFrame("Open", Open(Container), <<>>)
    [] o = "begin" -> AmqpFrame("Begin", Begin, <<>>)
    [] o = "attach" -> NewAttach(uuids + 1)
    [] OTHER -> NoFrame

----------------------------------------------------------------------------
(* The codec pipeline: a Frame goes through Frame::to_vec and the bytes    *)
(* through Codec::decode.                                                  *)

\* the channels, extended headers, performatives and messages the frames of
\* the pipeline are built from
Channels == {0, 1, 258}
ExtendedHeaders == {<<>>, <<<<1, 2, 3, 4>>>>}
Performatives ==
  { [var |-> "Open", val |-> Open(<<97>>)],
    [var |-> "Begin", val |-> Begin],
    [var |-> "Attach", val |-> Attach(<<108>>, 0, Sender, <<115>>, <<116>>, <<0>>)],
    [var |-> "Flow", val |-> Flow],
    [var |-> "Transfer", val |-> Transfer(<<7>>)],
    [var |-> "Disposition",
     val |-> <<Receiver, 0, <<0>>, <<TRUE>>, <<[var |-> "Accepted", val |-> <<>>]>>, <<>>>>],
    [var |-> "Detach", val |-> <<0, <<TRUE>>, <<>>>>],
    [var |-> "Close", val |-> <<<<<<<<101>>, <<100>>, <<>>>>>>>>] }
Messages ==
  { <<>>,
    <<Message>>,
    <<[Message EXCEPT !.header = <<<<<<TRUE>>, <<4>>, <<>>, <<>>, <<>>>>>>]>>,
    <<[Message EXCEPT !.body = <<[var |-> "Sequence", val |-> <<>>]>>]>>,
    <<[Message EXCEPT !.properties = <<Properties(<<109>>, <<117>>, <<114>>)>>,
                      !.body = <<[var |-> "Sequence", val |-> <<>>]>>]>>,
    <<[Message EXCEPT !.application_properties = <<<<>>>>,
                      !.body = <<[var |-> "Data", val |-> <<98, 97, 122>>]>>]>>,
    <<[Message EXCEPT !.body = <<[var |-> "Data", val |-> <<98, 97, 122>>]>>,
                      !.footer = <<<<>>>>]>> }
SaslFrames ==
  { [var |-> "Mechanisms", val |-> <<<<1, 0>>>>],
    [var |-> "Init", val |-> <<1, <<<<0, 117, 0, 112>>>>, <<>>>>],
    [var |-> "Outcome", val |-> <<0, <<>>>>],
    [var |-> "Outcome", val |-> <<1, <<<<1>>>>>>] }

CodecFrames ==
  { HeaderFrame(p) : p \in {"Sasl", "Amqp"} }
  \cup { [type |-> "Sasl", frame |-> f] : f \in SaslFrames }
  \cup { [type |-> "Amqp", channel |-> c, extended_header |-> x, performative |-> p,
          message |-> m] :
         c \in Channels, x \in ExtendedHeaders, p \in Performatives, m \in Messages }

NoBytes == [st |-> "none", e |-> "", out |-> <<>>]
NoItem == [st |-> "none", e |-> "", frame |-> NoFrame, src |-> <<>>]

\* the driver does not run in the codec pipeline
DriverOff ==
  /\ program = "none" /\ pc = "exited" /\ caller = "app" /\ op = "none"
  /\ arg = NoFrame /\ result = "none" /\ sent = <<>> /\ rxn = 0 /\ opRx = <<>>
  /\ io = "down" /\ unexpected = 0 /\ errSeen = FALSE /\ okAfterErr = FALSE
  /\ ops = 0 /\ newResult = "none" /\ callResult = "none" /\ calls = 0
  /\ reply = NoReply /\ uuids = 0 /\ requests = <<>> /\ rcvName = <<>>

\* no byte stream is read
StreamOff == sframes = <<>> /\ swire = <<>> /\ sbuf = <<>> /\ sout = <<>> /\ sres = NoItem

CodecInit ==
  /\ cframe \in CodecFrames
  /\ cpc = "start" /\ cbytes = NoBytes /\ cres = NoItem
  /\ StreamOff
  /\ DriverOff

\* Frame::to_vec on the frame
Encode ==
  /\ cpc = "start"
  /\ cbytes' = Frame_to_vec(cframe)
  /\ cpc' = "encoded"
  /\ UNCHANGED <<cframe, cres>>
  /\ UNCHANGED <<svars, dvars>>

\* Codec::decode on the bytes to_vec returned
Decode ==
  /\ cpc = "encoded"
  /\ cbytes.st = "ok"
  /\ cres' = Codec_decode(cbytes.out)
  /\ cpc' = "decoded"
  /\ UNCHANGED <<cframe, cbytes>>
  /\ UNCHANGED <<svars, dvars>>

CodecNext == Encode \/ Decode

CodecSpec == CodecInit /\ [][CodecNext]_vars

\* C1: Frame round trip: for every Frame f, to_vec returns bytes and
\* Codec::decode of those bytes yields a frame equal to f.
C1_RoundTrip ==
  /\ cpc # "start" => cbytes.st = "ok"
  /\ cpc = "decoded" => cres.st = "ok" /\ cres.frame = cframe

\* C14: the bytes Frame::to_vec returns for a frame that is no protocol
\* header begin with the big-endian u32 of their own number, then the data
\* offset 2, then the type 0 for AMQP and 1 for SASL, then the big-endian
\* channel, zero for SASL.
C14_FrameHeader ==
  (cpc # "start" /\ cframe.type # "Header" /\ cbytes.st = "ok")
  => /\ Len(cbytes.out) >= 8
     /\ cbytes.out[1] * 16777216 + cbytes.out[2] * 65536 + cbytes.out[3] * 256
          + cbytes.out[4] = Len(cbytes.out)
     /\ cbytes.out[5] = 2
     /\ cbytes.out[6] = IF cframe.type = "Amqp" THEN 0 ELSE 1
     /\ cbytes.out[7] * 256 + cbytes.out[8]
          = IF cframe.type = "Amqp" THEN cframe.channel ELSE 0

\* to_vec has returned the bytes of an AMQP frame on channel 258
C14_ChannelFrame ==
  /\ cpc = "encoded" /\ cbytes.st = "ok"
  /\ cframe.type = "Amqp" /\ cframe.channel = 258 /\ cframe.message # <<>>

----------------------------------------------------------------------------
(* Values through the serializer and back: a value of a wire type goes     *)
(* through ser::into_bytes and the bytes through de::deserialize.          *)

\* bound of the exploration: strings and binaries have up to 255 + MaxOver
\* bytes
MaxOver == 1

Typed(ty, vs) == { [ty |-> ty, v |-> v] : v \in vs }
Filled(n) == [i \in 1..n |-> 97]
Lengths == {0, 1, 255} \cup { 255 + k : k \in 1..MaxOver }

PrimitiveValues ==
  Typed(TBool, {TRUE, FALSE})
  \cup Typed(TU8, {0, 1, 255})
  \cup Typed(TU16, {0, 255, 256, 65535})
  \cup Typed(TU32, {0, 1, 255, 256, 70000})
  \cup Typed(TU64, {0, 1, 255, 256, 70000})
  \cup Typed(TI8, {-128, -1, 0, 127})
  \cup Typed(TI16, {-32768, -1, 0, 255, 256})
  \cup Typed(TI32, {-70000, -129, -128, -1, 0, 127, 128, 255, 256, 70000})
  \cup Typed(TI64, {-70000, -129, -128, -1, 0, 127, 128, 255, 256, 70000})
  \cup Typed(TStr, { Filled(n) : n \in Lengths })
  \cup Typed(TBytes, { Filled(n) : n \in Lengths })
  \cup Typed(Opt(TU32), {<<>>, <<0>>, <<7>>})
  \cup Typed(Opt(TStr), {<<>>, <<Filled(2)>>})
  \cup Typed(TUnit, {<<>>})

\* described structs with their optional fields absent, as the clients
\* build them
PlainValues ==
  { [ty |-> Described(p.var), v |-> p.val] : p \in Performatives }
  \cup Typed(Described("Source"), {Source(<<115>>)})
  \cup Typed(Described("Target"), {Target(<<116>>)})
  \cup Typed(Described("Error"), {<<<<101>>, <<100>>, <<>>>>})
  \cup Typed(Described("Header"), {<<<<TRUE>>, <<4>>, <<>>, <<>>, <<>>>>})
  \cup Typed(Described("Properties"), {Properties(<<109>>, <<117>>, <<114>>)})
  \cup Typed(Described("Init"), {<<1, <<<<0, 117, 0, 112>>>>, <<>>>>})
  \cup Typed(Described("Outcome"), {<<0, <<>>>>, <<1, <<<<1>>>>>>})

\* amqp::Attach with one more optional field present
AttachWith(i, x) == [Attach(<<108>>, 0, Sender, <<115>>, <<116>>, <<0>>) EXCEPT ![i] = <<x>>]

\* described structs with an optional enum, map or list field present
FilledValues ==
  Typed(Described("Attach"),
        { AttachWith(4, 1), AttachWith(5, 0), AttachWith(8, <<>>),
          AttachWith(8, << <<<<1>>, 5>> >>), AttachWith(8, << <<<<1>>, 5>>, <<<<2>>, 0>> >>),
          AttachWith(12, <<>>), AttachWith(12, <<<<99>>>>) })
  \cup Typed(Described("Open"), { [Open(<<97>>) EXCEPT ![6] = <<<<<<99>>>>>>] })
  \cup Typed(Described("Source"),
             { [Source(<<115>>) EXCEPT ![2] = <<0>>], [Source(<<115>>) EXCEPT ![2] = <<2>>],
               [Source(<<115>>) EXCEPT ![3] = <<1>>],
               [Source(<<115>>) EXCEPT ![9] = <<[var |-> "Accepted", val |-> <<>>]>>] })
  \cup Typed(Described("Mechanisms"), {<<<<>>>>, <<<<1, 0>>>>})
  \cup Typed(Described("ApplicationProperties"), {<<>>, << <<<<107>>, AnyStr(<<118>>)>> >>})
  \cup Typed(TMap(TStr, TStr), {<<>>, << <<<<107>>, <<118>>>> >>, << <<<<107>>, <<>>>>, <<<<>>, <<118>>>> >>})

CompositeValues == PlainValues \cup FilledValues

\* field-less enums written by serialize_unit_variant, as the variant index
SymbolValues ==
  Typed(Mechanism, {0, 1}) \cup Typed(SenderSettleMode, {0, 1, 2})
  \cup Typed(ExpiryPolicy, {0, 3})

Values == PrimitiveValues \cup CompositeValues \cup SymbolValues

ValueInit ==
  /\ cframe \in Values
  /\ cpc = "start" /\ cbytes = NoBytes /\ cres = NoItem
  /\ StreamOff
  /\ DriverOff

\* ser::into_bytes(&value, &mut output)
Serialize ==
  /\ cpc = "start"
  /\ cbytes' = into_bytes(cframe.ty, cframe.v)
  /\ cpc' = "serialized"
  /\ UNCHANGED <<cframe, cres>>
  /\ UNCHANGED <<svars, dvars>>

\* de::deserialize(&bytes) at the type of the value
Deserialize ==
  /\ cpc = "serialized"
  /\ cbytes.st = "ok"
  /\ cres' = deserialize(cframe.ty, cbytes.out)
  /\ cpc' = "deserialized"
  /\ UNCHANGED <<cframe, cbytes>>
  /\ UNCHANGED <<svars, dvars>>

ValueNext == Serialize \/ Deserialize

ValueSpec == ValueInit /\ [][ValueNext]_vars

\* the value has come back from its bytes, all of them consumed
CameBack ==
  /\ cpc # "start" => cbytes.st = "ok"
  /\ cpc = "deserialized"
     => cres.st = "ok" /\ cres.v.val = cframe.v /\ cres.v.rest = <<>>

\* C15: every bool, u8, u16, u32, u64, i8, i16, i32, i64, string, binary
\* and option comes back from the bytes the serializer writes for it, and
\* the deserializer consumes exactly those bytes.
C15_PrimitiveRoundTrip == cframe \in PrimitiveValues => CameBack

\* the i32 -1 has come back as 255
C15_SignLost ==
  /\ cpc = "deserialized" /\ cframe = [ty |-> TI32, v |-> -1]
  /\ cres.st = "ok" /\ cres.v.val = 255

\* C16: every value of a described composite type comes back from the bytes
\* the serializer writes for it, also when its optional list-, map- or
\* enum-typed fields are present.
C16_CompositeRoundTrip == cframe.ty.t = "described" => CameBack

\* an Attach with its optional fields absent has come back
C16_PlainAttach ==
  /\ cpc = "deserialized" /\ cframe.ty = Described("Attach") /\ cframe \in PlainValues
  /\ CameBack

\* an Attach whose offered_capabilities hold one symbol was serialized, and
\* its bytes are refused
C16_ListRefused ==
  /\ cpc = "deserialized"
  /\ cframe = [ty |-> Described("Attach"), v |-> AttachWith(12, <<<<99>>>>)]
  /\ cres.st = "err" /\ cres.e = "InvalidFormatCode"

\* the fields of a described struct as the serializer writes them one after
\* another
FieldBytes == SerAll(Fields(cframe.ty.name), cframe.v, 1).out

\* C17: a described composite is written as 0x00, its numeric code in the
\* unsigned-long form (every type of the wire model carries a code; Open is
\* 0x00 0x53 0x10), then a list of all declared fields in declaration order.
C17_DescriptorEncoding ==
  (cpc # "start" /\ cframe.ty.t = "described")
  => /\ cbytes.st = "ok"
     /\ Take(cbytes.out, 3) = <<0, 83, DescribedCode(cframe.ty.name)>>
     /\ Drop(cbytes.out, 3)
          = <<208>> \o BE32(4 + Len(FieldBytes)) \o BE32(Len(Fields(cframe.ty.name)))
            \o FieldBytes

\* Open { container_id: "a", .. } is written under the symbol
\* "amqp:open:list|16"
C17_SymbolWritten ==
  /\ cpc = "serialized" /\ cframe = [ty |-> Described("Open"), v |-> Open(<<97>>)]
  /\ Take(cbytes.out, 3) = <<0, 163, 17>>
  /\ SubSeq(cbytes.out, 4, 20) = renamed("Open")
  /\ cbytes.out[21] = 208

\* the bytes of a string, binary or symbol value, and the format codes of
\* its 1-byte and 4-byte length forms
Payload ==
  IF cframe.ty.t = "uenum" THEN cframe.ty.variants[cframe.v + 1] ELSE cframe.v
Narrow == CASE cframe.ty.t = "str" -> 161 [] cframe.ty.t = "bytes" -> 160 [] OTHER -> 163
Wide == Narrow + 16

\* C18: a string, binary or symbol of n bytes is written with a1/a0/a3 and a
\* 1-byte length when n <= 255, and with b1/b0/b3 and a 4-byte big-endian
\* length from 256 bytes on.
C18_WidthSelection ==
  (cpc # "start" /\ cframe.ty.t \in {"str", "bytes", "uenum"})
  => /\ cbytes.st = "ok"
     /\ cbytes.out = IF Len(Payload) <= 255
                     THEN <<Narrow, Len(Payload)>> \o Payload
                     ELSE <<Wide>> \o BE32(Len(Payload)) \o Payload

\* a string of 256 bytes is written with format code a1 and a 4-byte length
C18_WideStr ==
  /\ cpc = "serialized" /\ cframe = [ty |-> TStr, v |-> Filled(256)]
  /\ cbytes.st = "ok" /\ cbytes.out = <<161, 0, 0, 1, 0>> \o Filled(256)

RECURSIVE ItemLen(_), Items(_), ItemOk(_), Consistent(_)

\* the number of bytes the first encoded item of b takes, by its format
\* code; 0 when b does not start with a whole item
ItemLen(b) ==
  IF b = <<>> THEN 0
  ELSE LET c == b[1]
           n == CASE c = 0 ->
                       (LET dl == ItemLen(Tail(b))
                            vl == ItemLen(Drop(b, 1 + dl))
                        IN IF dl = 0 \/ vl = 0 THEN 0 ELSE 1 + dl + vl)
                  [] c \in 64..69 -> 1
                  [] c \in 80..86 -> 2
                  [] c \in {96, 97} -> 3
                  [] c \in 112..116 -> 5
                  [] c \in 128..132 -> 9
                  [] c \in {160, 161, 163, 192, 193} -> IF Len(b) < 2 THEN 0 ELSE 2 + b[2]
                  [] c \in {176, 177, 179, 208, 209} ->
                       IF Len(b) < 5 THEN 0 ELSE 5 + FromBE(SubSeq(b, 2, 5))
                  [] OTHER -> 0
       IN IF n > Len(b) THEN 0 ELSE n

\* the number of encoded items b holds, -1 when b is not a run of whole items
Items(b) ==
  IF b = <<>> THEN 0
  ELSE LET n == ItemLen(b)
       IN IF n = 0 THEN -1
          ELSE LET r == Items(Drop(b, n)) IN IF r < 0 THEN -1 ELSE 1 + r

\* the count field of a list32 or map32 item
CountField(it) == FromBE(SubSeq(it, 6, 9))

\* one encoded item: a list32 or map32 holds as many items as its count
\* field says between its count field and the end its size field gives, a
\* map an even number, and the same holds within each of them
ItemOk(it) ==
  CASE it[1] = 0 -> ItemOk(Drop(it, 1 + ItemLen(Tail(it))))
    [] it[1] \in {208, 209} ->
         /\ Len(it) >= 9
         /\ Items(Drop(it, 9)) = CountField(it)
         /\ it[1] = 209 => CountField(it) % 2 = 0
         /\ Consistent(Drop(it, 9))
    [] OTHER -> TRUE

Consistent(b) ==
  \/ b = <<>>
  \/ LET n == ItemLen(b) IN n > 0 /\ ItemOk(Take(b, n)) /\ Consistent(Drop(b, n))

\* the list32 or map32 of the output, behind the descriptor if there is one
Compound ==
  IF cbytes.out[1] = 0 THEN Drop(cbytes.out, 1 + ItemLen(Tail(cbytes.out)))
  ELSE cbytes.out

\* C19: in what the serializer writes for a described composite or a map,
\* every size field spans exactly the count field and the payload, every
\* composite's count is the number of items written for its fields and is
\* the declared field count, and every map's count is twice its entries;
\* the same holds in the nested composites and maps.
C19_HeaderConsistency ==
  (cpc # "start" /\ cframe.ty.t \in {"described", "map"} /\ cbytes.st = "ok")
  => /\ ItemLen(cbytes.out) = Len(cbytes.out)
     /\ ItemOk(cbytes.out)
     /\ cframe.ty.t = "described" => CountField(Compound) = Len(Fields(cframe.ty.name))
     /\ cframe.ty.t = "map" => CountField(Compound) = 2 * Len(cframe.v)

\* sasl Mechanisms with two mechanisms is written with count 1 over two
\* symbols
C19_CountOff ==
  /\ cpc = "serialized" /\ cframe = [ty |-> Described("Mechanisms"), v |-> <<<<1, 0>>>>]
  /\ cbytes.st = "ok" /\ ItemLen(cbytes.out) = Len(cbytes.out)
  /\ CountField(Compound) = 1 /\ Items(Drop(Compound, 9)) = 2

----------------------------------------------------------------------------
(* Message sections: a transfer frame as a peer writes it, with a body and *)
(* any of the six optional sections in front of and behind it, through     *)
(* Codec::decode.                                                          *)

OptionalSections ==
  {"Header", "DeliveryAnnotations", "MessageAnnotations", "Properties",
   "ApplicationProperties", "Footer"}
BodyKinds == {"Data", "Value"}

\* one section on the wire: descriptor 0x00 0x53 <code>, then its value
SectionWire(name) ==
  <<0, 83, DescribedCode(name)>>
  \o CASE name = "Header" -> <<192, 4, 2, 65, 80, 4>>
       [] name = "Properties" -> <<192, 4, 1, 161, 1, 109>>
       [] name = "Data" -> <<160, 3, 98, 97, 122>>
       [] name = "Value" -> <<161, 1, 118>>
       [] OTHER -> <<193, 1, 0>>

\* the value of each section above
SectionValue(name) ==
  CASE name = "Header" -> <<<<TRUE>>, <<4>>, <<>>, <<>>, <<>>>>
    [] name = "Properties" -> <<<<<<109>>>>>> \o Nones(12)
    [] name = "Data" -> [var |-> "Data", val |-> <<98, 97, 122>>]
    [] name = "Value" -> [var |-> "Value", val |-> AnyStr(<<118>>)]
    [] OTHER -> <<>>

Section(present, name) == IF name \in present THEN SectionWire(name) ELSE <<>>
Held(present, name) == IF name \in present THEN <<SectionValue(name)>> ELSE <<>>

\* the sections in their fixed order
SectionsWire(present, body) ==
  Section(present, "Header") \o Section(present, "DeliveryAnnotations")
  \o Section(present, "MessageAnnotations") \o Section(present, "Properties")
  \o Section(present, "ApplicationProperties") \o SectionWire(body)
  \o Section(present, "Footer")

\* a transfer frame on channel 0 carrying the sections
MessageWire(present, body) ==
  LET rest == <<2, 0, 0, 0, 0, 83, 20, 192, 3, 2, 67, 67>> \o SectionsWire(present, body)
  IN BE32(4 + Len(rest)) \o rest

\* the Message holding exactly the sections present
MessageOf(present, body) ==
  [header |-> Held(present, "Header"),
   delivery_annotations |-> Held(present, "DeliveryAnnotations"),
   message_annotations |-> Held(present, "MessageAnnotations"),
   properties |-> Held(present, "Properties"),
   application_properties |-> Held(present, "ApplicationProperties"),
   body |-> <<SectionValue(body)>>,
   footer |-> Held(present, "Footer")]

SectionInit ==
  /\ cframe \in [present : SUBSET OptionalSections, body : BodyKinds]
  /\ cbytes = SerOk(MessageWire(cframe.present, cframe.body))
  /\ cpc = "encoded" /\ cres = NoItem
  /\ StreamOff
  /\ DriverOff

\* Codec::decode on the frame
SectionDecode ==
  /\ cpc = "encoded"
  /\ cres' = Codec_decode(cbytes.out)
  /\ cpc' = "decoded"
  /\ UNCHANGED <<cframe, cbytes>>
  /\ UNCHANGED <<svars, dvars>>

SectionNext == SectionDecode

SectionSpec == SectionInit /\ [][SectionNext]_vars

\* C20: a frame whose message holds a body and any subset of the optional
\* sections in the fixed order decodes to the message holding exactly the
\* sections present.
C20_OptionalSections ==
  cpc = "decoded"
  => /\ cres.st = "ok"
     /\ cres.frame.type = "Amqp"
     /\ cres.frame.message = <<MessageOf(cframe.present, cframe.body)>>
     /\ cres.src = <<>>

\* a message of a data body alone is refused
C20_BodyAloneRefused ==
  /\ cpc = "decoded" /\ cframe = [present |-> {}, body |-> "Data"]
  /\ cres.st = "err" /\ cres.e = "InvalidFormatCode"

\* a message with header, application-properties, body and footer is decoded
C20_WithApplicationProperties ==
  /\ cpc = "decoded"
  /\ cframe.present = {"Header", "ApplicationProperties", "Footer"}
  /\ cres.st = "ok"
  /\ cres.frame.message = <<MessageOf(cframe.present, cframe.body)>>

----------------------------------------------------------------------------
(* Bytes as a peer writes them, through de::deserialize at a wire type.    *)
(* An input is [ty, in, ref, k, case]: the type asked for, the bytes, the  *)
(* bytes of a reference encoding of the same value where there is one, the *)
(* number of trailing fields left out, and what the input is a case of.    *)

Input(ty, in, ref, k, case) == [ty |-> ty, in |-> in, ref |-> ref, k |-> k, case |-> case]

\* the list forms with 1-byte and 4-byte size and count
ListForms == {192, 208}

\* a list of count items in the form asked for
ListWire(form, count, payload) ==
  IF form = 192 THEN <<192, 1 + Len(payload), count>> \o payload
  ELSE <<208>> \o BE32(4 + Len(payload)) \o BE32(count) \o payload

\* a described list under the numeric descriptor of the type called name
DescribedWire(name, form, count, payload) ==
  <<0, 83, DescribedCode(name)>> \o ListWire(form, count, payload)

\* the first n fields of the struct value v, one after another
FirstFields(name, v, n) ==
  SerAll(SubSeq(Fields(name), 1, n), SubSeq(v, 1, n), 1).out

\* struct values whose trailing fields are None
TruncatedNames ==
  {"Open", "Begin", "Flow", "Transfer", "Detach", "Close", "Error", "Header",
   "Properties", "Source", "Target"}
TruncatedValue(name) ==
  CASE name = "Open" -> Open(<<97>>)
    [] name = "Begin" -> Begin
    [] name = "Flow" -> Flow
    [] name = "Transfer" -> Transfer(<<7>>)
    [] name = "Detach" -> <<0, <<TRUE>>, <<>>>>
    [] name = "Close" -> <<<<>>>>
    [] name = "Error" -> <<<<101>>, <<100>>, <<>>>>
    [] name = "Header" -> <<<<TRUE>>, <<4>>, <<>>, <<>>, <<>>>>
    [] name = "Properties" -> Properties(<<109>>, <<117>>, <<114>>)
    [] name = "Source" -> [Source(<<115>>) EXCEPT ![3] = <<1>>]
    [] name = "Target" -> Target(<<116>>)

\* the number of their trailing fields that are None
TrailingNones(name) ==
  CASE name \in {"Open", "Properties", "Source"} -> 8
    [] name = "Transfer" -> 7
    [] name = "Target" -> 6
    [] name \in {"Begin", "Flow"} -> 4
    [] name = "Header" -> 3
    [] name \in {"Detach", "Close", "Error"} -> 1

\* the list of the struct without its last k fields
TruncatedWire(name, form, k) ==
  LET n == Len(Fields(name)) - k
  IN DescribedWire(name, form, n, FirstFields(name, TruncatedValue(name), n))

\* each list without its last k fields, against the list with all fields written
TruncatedInputs ==
  UNION { { Input(Described(name), TruncatedWire(name, form, k), TruncatedWire(name, form, 0),
                  k, "truncated") : k \in 0..TrailingNones(name), form \in ListForms } :
          name \in TruncatedNames }

\* the map forms with 1-byte and 4-byte size and count
MapForms == {193, 209}

\* bound of the exploration: maps of up to MaxItems keys and values
MaxItems == 5

\* a map of count items in the form asked for
MapWire(form, count, payload) ==
  IF form = 193 THEN <<193, 1 + Len(payload), count>> \o payload
  ELSE <<209>> \o BE32(4 + Len(payload)) \o BE32(count) \o payload

\* n one-letter strings, the keys and values of a map in turn
RECURSIVE Letters(_)
Letters(n) == IF n = 0 THEN <<>> ELSE Letters(n - 1) \o <<161, 1, 96 + n>>

\* the pairs the first n of those strings make
Pairs(n) == [i \in 1..(n \div 2) |-> << <<95 + 2 * i>>, <<96 + 2 * i>> >>]

\* maps of strings with every count up to MaxItems, k the count
MapInputs ==
  { Input(TMap(TStr, TStr), MapWire(form, n, Letters(n)), <<>>, n, "map") :
      n \in 0..MaxItems, form \in MapForms }

\* the enums the amqp attribute makes tagged choices of
Choices == {"Performative", "Body", "DeliveryState", "amqp::Outcome", "sasl::Frame"}

\* descriptors no variant of them carries: the code 0x99 as a small and as a
\* full unsigned long, and the symbol "x:list"
UnknownDescriptors ==
  { <<83, 153>>, <<128, 0, 0, 0, 0, 0, 0, 0, 153>>, <<163, 6, 120, 58, 108, 105, 115, 116>> }

\* an empty list under each of them, asked for as each of the enums
UnknownInputs ==
  { Input(NEnum(name), <<0>> \o desc \o <<69>>, <<>>, 0, "unknown") :
      name \in Choices, desc \in UnknownDescriptors }

\* whole encodings of one value each
WholeInputs ==
  { Input(TBool, <<86, 1>>, <<>>, 0, "whole"),
    Input(TU8, <<80, 7>>, <<>>, 0, "whole"),
    Input(TU16, <<96, 1, 2>>, <<>>, 0, "whole"),
    Input(TU32, <<112, 0, 1, 0, 0>>, <<>>, 0, "whole"),
    Input(TU64, <<128, 0, 0, 0, 0, 0, 0, 1, 0>>, <<>>, 0, "whole"),
    Input(TI8, <<81, 255>>, <<>>, 0, "whole"),
    Input(TI16, <<97, 255, 254>>, <<>>, 0, "whole"),
    Input(TI32, <<113, 0, 0, 1, 0>>, <<>>, 0, "whole"),
    Input(TI64, <<129, 0, 0, 0, 0, 0, 0, 1, 0>>, <<>>, 0, "whole"),
    Input(TStr, <<161, 2, 97, 98>>, <<>>, 0, "whole"),
    Input(TStr, <<177, 0, 0, 0, 2, 97, 98>>, <<>>, 0, "whole"),
    Input(TBytes, <<160, 2, 1, 2>>, <<>>, 0, "whole"),
    Input(TBytes, <<176, 0, 0, 0, 2, 1, 2>>, <<>>, 0, "whole"),
    Input(TMap(TStr, TStr), MapWire(193, 2, Letters(2)), <<>>, 0, "whole"),
    Input(Described("Open"), TruncatedWire("Open", 192, 8), <<>>, 0, "whole"),
    Input(Described("Open"), TruncatedWire("Open", 208, 8), <<>>, 0, "whole"),
    Input(NEnum("Performative"), TruncatedWire("Open", 192, 8), <<>>, 0, "whole") }

\* every proper prefix of each of them: the input ends before the value is
\* complete; ref is the whole encoding and k the number of bytes missing
CutInputs ==
  UNION { { Input(w.ty, Take(w.in, n), w.in, Len(w.in) - n, "cut") : n \in 0..(Len(w.in) - 1) } :
          w \in WholeInputs }

DecodeInputs ==
  TruncatedInputs \cup MapInputs \cup UnknownInputs \cup WholeInputs \cup CutInputs

DecodeInit ==
  /\ cframe \in DecodeInputs
  /\ cpc = "input" /\ cbytes = NoBytes /\ cres = NoItem
  /\ StreamOff
  /\ DriverOff

\* de::deserialize(&bytes) at the type asked for
DecodeValue ==
  /\ cpc = "input"
  /\ cres' = deserialize(cframe.ty, cframe.in)
  /\ cpc' = "read"
  /\ UNCHANGED <<cframe, cbytes>>
  /\ UNCHANGED <<svars, dvars>>

DecodeNext == DecodeValue

DecodeSpec == DecodeInit /\ [][DecodeNext]_vars

\* C21: a list-encoded composite whose last k fields, all optional, are left
\* out decodes to the value the same composite decodes to with those fields
\* written as 0x40, each of the k fields none, in the c0 and the d0 form.
C21_TruncatedFields ==
  (cpc = "read" /\ cframe.case = "truncated")
  => /\ cres.st = "ok"
     /\ cres.v.rest = <<>>
     /\ cres.v = deserialize(cframe.ty, cframe.ref).v
     /\ \A i \in 1..cframe.k : cres.v.val[Len(cres.v.val) + 1 - i] = <<>>
     /\ Len(cres.v.val) = Len(Fields(cframe.ty.name))

\* an Open with its eight trailing fields left out of a c0 list has been read
C21_OpenTruncated ==
  /\ cpc = "read" /\ cframe.case = "truncated"
  /\ cframe.in = <<0, 83, 16, 192, 4, 1, 161, 1, 97>>
  /\ cframe.k = 8
  /\ cres.st = "ok" /\ cres.v.val = Open(<<97>>)

\* C22: a map of count items decodes to exactly count / 2 pairs, and a map
\* with an odd count is refused with an error.
C22_MapPairs ==
  (cpc = "read" /\ cframe.case = "map")
  => IF cframe.k % 2 = 0
     THEN cres.st = "ok" /\ cres.v.val = Pairs(cframe.k) /\ cres.v.rest = <<>>
     ELSE cres.st = "err"

\* a map of count 3 has been read as one pair, the third string left over
C22_KeyLeftOver ==
  /\ cpc = "read" /\ cframe.case = "map" /\ cframe.k = 3
  /\ cres.st = "ok" /\ cres.v.val = Pairs(2) /\ cres.v.rest = <<161, 1, 99>>

\* C23: a tagged choice whose descriptor is the code or name of none of its
\* variants fails with InvalidData.
C23_UnknownDescriptor ==
  (cpc = "read" /\ cframe.case = "unknown") => cres.st = "err" /\ cres.e = "InvalidData"

\* a Performative under the unknown code 0x99 has failed with Deserialization
C23_CustomError ==
  /\ cpc = "read" /\ cframe.ty = NEnum("Performative") /\ cframe.in = <<0, 83, 153, 69>>
  /\ cres.st = "err" /\ cres.e = "Deserialization"

\* C24: when the input ends before the value is complete, the decoder
\* returns the error UnexpectedEnd and does not abort; the whole encoding
\* decodes.
C24_TruncatedInput ==
  /\ (cpc = "read" /\ cframe.case = "cut") => cres.st = "err" /\ cres.e = "UnexpectedEnd"
  /\ (cpc = "read" /\ cframe.case = "whole") => cres.st = "ok" /\ cres.v.rest = <<>>

\* a str8 that declares two bytes and holds one has aborted the decoder
C24_SplitPanics ==
  /\ cpc = "read" /\ cframe.ty = TStr /\ cframe.in = <<161, 2, 97>>
  /\ cres.st = "panic"

\* an Open asked of no bytes at all has returned UnexpectedEnd
C24_EndReported ==
  /\ cpc = "read" /\ cframe.case = "cut" /\ cframe.ty = Described("Open") /\ cframe.in = <<>>
  /\ cres.st = "err" /\ cres.e = "UnexpectedEnd"

----------------------------------------------------------------------------
(* Buffers as a peer fills them, whole frames of every kind, through       *)
(* Codec::decode.  A buffer is [case, buf, d]: what it is a case of, the   *)
(* bytes, and the data offset of the frame it holds.                       *)

Buffer(case, buf, d) == [case |-> case, buf |-> buf, d |-> d]

\* the largest data offset explored
MaxDoff == 4

\* a frame: length, data offset, type, two bytes of channel, then the
\* extended header and the body
FrameWire(d, type, ext, body) ==
  BE32(8 + Len(ext) + Len(body)) \o <<d, type, 0, 0>> \o ext \o body

\* the extended header a frame of data offset d holds: 4 * d - 8 bytes
ExtendedHeader(d) == IF d <= 2 THEN <<>> ELSE [i \in 1..(4 * d - 8) |-> i]

\* an open performative, container-id a
OpenBody == TruncatedWire("Open", 192, 8)
\* sasl-outcome, code 0
OutcomeBody == <<0, 83, 68, 192, 3, 1, 80, 0>>

\* frames of every data offset and type around an open or an outcome
OffsetBuffers ==
  { Buffer("offset", FrameWire(d, type, ExtendedHeader(d), IF type = 1 THEN OutcomeBody ELSE OpenBody), d) :
      d \in 0..MaxDoff, type \in 0..2 }

\* AMQP frames of data offset 2 whose body the frame decoder refuses: no
\* body at all, a descriptor cut short, an unknown descriptor, a list cut
\* short; and a sasl frame with bytes behind its value
RefusedBodies ==
  { <<>>, <<0>>, <<0, 83, 153, 69>>, <<0, 83, 16>>, <<0, 163, 1, 120, 69>>, <<65>> }
RefusedBuffers ==
  { Buffer("refused", FrameWire(2, 0, <<>>, body), 2) : body \in RefusedBodies }
  \cup { Buffer("refused", FrameWire(2, 1, <<>>, OutcomeBody \o <<64>>), 2),
         Buffer("refused", FrameWire(2, 2, <<>>, OpenBody), 2) }

\* a begin whose remote-channel, a ushort, comes under the format code of a
\* small uint
BeginBody == <<0, 83, 17, 192, 9, 4, 82, 1, 82, 1, 82, 8, 82, 8>>

\* buffers no peer that keeps to the protocol writes: a declared length below
\* 8, eight bytes that start with AMQP and are no protocol header, a sasl
\* frame whose bytes 2..4 are not zero, a fixed-width value under the wrong
\* format code
MalformedBuffers ==
  { Buffer("malformed", BE32(n) \o [i \in 1..(IF n > 4 THEN n - 4 ELSE 0) |-> 2], 0) : n \in 0..7 }
  \cup { Buffer("malformed", AMQP_MAGIC \o tail, 0) :
           tail \in { <<1, 1, 0, 0>>, <<0, 1, 0, 1>>, <<3, 1, 1, 0>>, <<2, 1, 0, 0>> } }
  \cup { Buffer("malformed", BE32(8 + Len(OutcomeBody)) \o <<2, 1>> \o ch \o OutcomeBody, 2) :
           ch \in { <<0, 1>>, <<1, 0>> } }
  \cup { Buffer("malformed", FrameWire(2, 0, <<>>, BeginBody), 2) }

\* the start of a frame or header, the rest not yet there
Starts(wire) == { Buffer("start", Take(wire, n), 0) : n \in 0..(Len(wire) - 1) }
StartBuffers ==
  Starts(AmqpHeaderWire) \cup Starts(SaslHeaderWire) \cup Starts(OpenWire)
  \cup Starts(MechanismsWire)

Buffers ==
  OffsetBuffers \cup RefusedBuffers \cup MalformedBuffers \cup StartBuffers

BufferInit ==
  /\ cframe \in Buffers
  /\ cbytes = SerOk(cframe.buf)
  /\ cpc = "filled" /\ cres = NoItem
  /\ StreamOff
  /\ DriverOff

\* Codec::decode on the buffer
BufferDecode ==
  /\ cpc = "filled"
  /\ cres' = Codec_decode(cbytes.out)
  /\ cpc' = "decoded"
  /\ UNCHANGED <<cframe, cbytes>>
  /\ UNCHANGED <<svars, dvars>>

BufferNext == BufferDecode

BufferSpec == BufferInit /\ [][BufferNext]_vars

\* what Frame::decode says of the frame the buffer holds
Inner == Frame_decode(Drop(cbytes.out, 4))

\* C25: when Frame::decode fails with UnexpectedEnd on the bytes of a frame,
\* Codec::decode returns Ok(None); any other error of Frame::decode is
\* returned as the error.
C25_EndIsNeedMore ==
  (cpc = "decoded" /\ cframe.case = "refused" /\ Inner.st = "err")
  => IF Inner.e = "UnexpectedEnd" THEN cres.st = "none"
     ELSE cres.st = "err" /\ cres.e = Inner.e

\* a frame of eight bytes, no body, has been answered with Err(UnexpectedEnd)
\* and taken off the buffer
C25_EmptyFrameError ==
  /\ cpc = "decoded" /\ cbytes.out = <<0, 0, 0, 8, 2, 0, 0, 0>>
  /\ cres.st = "err" /\ cres.e = "UnexpectedEnd" /\ cres.src = <<>>

\* C27: an AMQP frame of data offset d >= 2 decodes with the 4 * d - 8 bytes
\* behind the frame header as its extended header, none when d = 2, and the
\* performative read from byte 4 * d on; a frame of data offset below 2 or
\* of a type other than 0 and 1 is refused with InvalidData.
C27_DataOffset ==
  (cpc = "decoded" /\ cframe.case = "offset")
  => IF cframe.d < 2 \/ cbytes.out[6] = 2
     THEN cres.st = "err" /\ cres.e = "InvalidData"
     ELSE cbytes.out[6] = 0
          => /\ cres.st = "ok"
             /\ cres.frame.type = "Amqp"
             /\ cres.frame.extended_header
                  = IF cframe.d = 2 THEN <<>> ELSE <<ExtendedHeader(cframe.d)>>
             /\ cres.frame.performative = [var |-> "Open", val |-> Open(<<97>>)]

\* an open frame of data offset 3, four bytes of extended header, is refused
C27_WordsAsBytes ==
  /\ cpc = "decoded" /\ cframe.case = "offset" /\ cframe.d = 3 /\ cbytes.out[6] = 0
  /\ Len(cbytes.out) = 8 + 4 + Len(OpenBody)
  /\ cres.st = "err"

\* the same frame of data offset 2 decodes
C27_NoExtendedHeader ==
  /\ cpc = "decoded" /\ cframe.case = "offset" /\ cframe.d = 2 /\ cbytes.out[6] = 0
  /\ cres.st = "ok" /\ cres.frame.extended_header = <<>>
  /\ cres.frame.performative = [var |-> "Open", val |-> Open(<<97>>)]

\* C30: Codec::decode returns a frame, Ok(None) or an error for every
\* buffer and never aborts; a malformed buffer gets an error.
C30_DecodeTotal ==
  cpc = "decoded"
  => /\ cres.st \in {"ok", "none", "err"}
     /\ cframe.case = "malformed" => cres.st = "err"
     /\ cframe.case = "start" => cres.st = "none" /\ cres.src = cbytes.out

\* a declared length of 5 has aborted the decoder
C30_ShortLengthPanics ==
  /\ cpc = "decoded" /\ cbytes.out = <<0, 0, 0, 5, 2>>
  /\ cres.st = "panic"

----------------------------------------------------------------------------
(* The byte stream: the peer writes protocol headers and frames back to    *)
(* back, the bytes arrive in pieces, and Codec::decode is called on what   *)
(* has arrived, as Framed calls it.                                        *)

\* bound of the exploration: the number of headers and frames in a stream
MaxStream == 3

StreamWires ==
  { SaslHeaderWire, AmqpHeaderWire, MechanismsWire, OpenWire, TransferWire }
\* the size of the pieces the bytes arrive in, unless all at once
FeedSizes == {7}

RECURSIVE Concat(_)
Concat(ws) == IF ws = <<>> THEN <<>> ELSE Head(ws) \o Concat(Tail(ws))

StreamInit ==
  /\ sframes \in UNION { [1..n -> StreamWires] : n \in 1..MaxStream }
  /\ swire = Concat(sframes)
  /\ sbuf = <<>> /\ sout = <<>> /\ sres = NoItem
  /\ cpc = "off" /\ cframe = NoFrame /\ cbytes = NoBytes /\ cres = NoItem
  /\ DriverOff

\* bytes arrive and are appended to the buffer
StreamFeed ==
  /\ swire # <<>>
  /\ \E k \in FeedSizes \cup {Len(swire)} :
       /\ k <= Len(swire)
       /\ sbuf' = sbuf \o Take(swire, k)
       /\ swire' = Drop(swire, k)
  /\ UNCHANGED <<sframes, sout, sres>>
  /\ UNCHANGED <<pvars, dvars>>

\* Codec::decode(&mut src) on the buffer
StreamDecode ==
  /\ sres.st \in {"none", "ok"}
  /\ sres' = Codec_decode(sbuf)
  /\ sbuf' = sres'.src
  /\ sout' = IF sres'.st = "ok" THEN Append(sout, sres'.frame) ELSE sout
  /\ UNCHANGED <<sframes, swire>>
  /\ UNCHANGED <<pvars, dvars>>

StreamNext == StreamFeed \/ StreamDecode

StreamSpec == StreamInit /\ [][StreamNext]_vars

IsHeaderWire(w) == Len(w) = PROTO_HEADER_LENGTH /\ Take(w, 4) = AMQP_MAGIC

C13_DecodeConsumes ==
  [][sout' # sout
     => /\ sbuf' = Drop(sbuf, IF sout'[Len(sout')].type = "Header"
                              THEN 8 ELSE FromBE(Take(sbuf, 4)))
        /\ Len(sbuf) - Len(sbuf')
             = (IF sout'[Len(sout')].type = "Header" THEN 8 ELSE FromBE(Take(sbuf, 4)))
        /\ Len(sbuf) - Len(sbuf') = Len(sframes[Len(sout')])]_vars

\* a frame has been yielded and the bytes of the next one are in the buffer
C13_BytesLeft ==
  /\ Len(sout) = 1 /\ Len(sframes) = 2 /\ sout[1].type = "Amqp"
  /\ sbuf = sframes[2] /\ swire = <<>>

\* the frames Codec::decode yields from the whole stream in one buffer
RECURSIVE Frames(_)
Frames(buf) ==
  LET r == Codec_decode(buf)
  IN IF r.st = "ok" THEN <<r.frame>> \o Frames(r.src) ELSE <<>>

\* C29: a decode that reports need-more-bytes leaves the buffer as it was,
\* and however the stream is cut into pieces the frames decoded are those
\* decoded from the stream in one piece: always a prefix of them, and all of
\* them once every byte has arrived and a decode would ask for more.
C29_ChunkingIndependent ==
  /\ [][(swire' = swire /\ sres'.st = "none") => sbuf' = sbuf]_vars
  /\ [](/\ Len(sout) <= Len(Frames(Concat(sframes)))
        /\ sout = Take(Frames(Concat(sframes)), Len(sout))
        /\ (swire = <<>> /\ Codec_decode(sbuf).st = "none")
             => sout = Frames(Concat(sframes)) /\ sbuf = <<>>)

\* need-more-bytes on the first two bytes of a frame's length, with a frame
\* already decoded
C29_NeedMoreMidPrefix ==
  /\ sres.st = "none" /\ Len(sout) >= 1 /\ Len(sbuf) \in 1..3 /\ swire # <<>>

\* need-more-bytes on a protocol header of which fewer than 8 bytes arrived
C29_NeedMoreMidHeader ==
  /\ sres.st = "none" /\ Len(sbuf) \in 4..7 /\ Take(sbuf, 4) = AMQP_MAGIC /\ Len(sout) >= 1

----------------------------------------------------------------------------
(* The reply of an RPC: Client::call hands on the frame it read, and       *)
(* NetworkMapSnapshot::response decodes its body.  A reply is what next()  *)
(* yielded and, for a frame, what its body() is: none or the bytes.  The   *)
(* descriptor of a struct is read and dropped, so the envelopes explored   *)
(* carry one-byte codes for Envelope, Schema and TransformsSchema.         *)

CORDA_MAGIC == <<99, 111, 114, 100, 97, 1, 0>>
\* SectionId::DataAndStop as u8
DataAndStop == 0

Envelope_decode(buf) ==
  IF Len(buf) < Len(CORDA_MAGIC) \/ Take(buf, 7) # CORDA_MAGIC THEN DErr("InvalidData")
  ELSE IF Drop(buf, 7) = <<>> \/ Drop(buf, 7)[1] # DataAndStop THEN DErr("InvalidData")
  ELSE Then(deserialize(Described("Envelope"), Drop(buf, 8)), LAMBDA r :
         IF r.v.rest # <<>> THEN DErr("TrailingCharacters") ELSE DOk(r.v.val, r.d))

\* Result<Vec<NodeInfo>, ()>, or the panic of the decoder
ROk(value) == [st |-> "ok", e |-> "", v |-> value]
RErr == [st |-> "err", e |-> "()", v |-> <<>>]
RPanic == [st |-> "panic", e |-> "", v |-> <<>>]

\* NetworkMapSnapshot::response, body what response.body() returned
response(body) ==
  IF body = <<>> THEN RErr
  ELSE LET rsp == Envelope_decode(body[1])
       IN IF rsp.st = "panic" THEN RPanic
          ELSE IF rsp.st # "ok" THEN RErr
          ELSE IF rsp.v[1].var = "Success" THEN ROk(rsp.v[1].val[1])
          ELSE RErr

\* the match on self.inner.next().await that ends Client::call, then the
\* caller's rpc.response(&frame)
Outcome(r) == IF r.next # "frame" THEN RErr ELSE response(r.body)

NodeInfoName == <<110,101,116,46,99,111,114,100,97,58,110,99,85,99,90,122,118,84,57,89,71,110,48,73,116,100,111,87,87,51,81,81,61,61>>   \* net.corda:ncUcZzvT9YGn0ItdoWW3QQ==

\* a NodeInfo without addresses and identities
NodeInfo(platform_version, serial) == <<<<>>, <<>>, platform_version, serial>>
NodeInfoWire(n) ==
  <<0, 163, Len(NodeInfoName)>> \o NodeInfoName
    \o ListWire(192, 4, <<69, 69, 84, n[3], 85, n[4]>>)

MaxNodes == 2
NodeInfos == { NodeInfo(p, s) : p \in {1, 4}, s \in {0, 7} }
NodeLists == UNION { [1..n -> NodeInfos] : n \in 0..MaxNodes }

RECURSIVE NodesWire(_)
NodesWire(ns) == IF ns = <<>> THEN <<>> ELSE NodeInfoWire(Head(ns)) \o NodesWire(Tail(ns))

\* Try::Success(Success { value }) and Try::Failure(Failure { value: () })
SuccessWire(ns) ==
  <<0, 163, Len(SuccessName)>> \o SuccessName
    \o ListWire(192, 1, ListWire(192, Len(ns), NodesWire(ns)))
FailureWire ==
  <<0, 163, Len(FailureName)>> \o FailureName \o ListWire(192, 1, <<64>>)

\* a Schema without types
SchemaWire == <<0, 83, 2>> \o ListWire(192, 1, <<69>>)

\* transforms_schema left out, written as null, and present
TransformsForms == {<<>>, <<64>>, <<0, 83, 9, 69>>}

EnvelopeWire(obj, transforms) ==
  CORDA_MAGIC \o <<DataAndStop>> \o <<0, 83, 1>>
    \o ListWire(192, IF transforms = <<>> THEN 2 ELSE 3, obj \o SchemaWire \o transforms)

Reply(case, nxt, body, nodes) == [case |-> case, next |-> nxt, body |-> body, nodes |-> nodes]

SuccessReplies ==
  { Reply("success", "frame", <<EnvelopeWire(SuccessWire(ns), t)>>, ns) :
      ns \in NodeLists, t \in TransformsForms }
FailureReplies ==
  { Reply("failure", "frame", <<EnvelopeWire(FailureWire, t)>>, <<>>) : t \in TransformsForms }

\* bodies that are no envelope of a Try: the magic or the section id is
\* wrong, bytes are missing or left over, the variant is not one of Try's
Undecodable ==
  LET w == EnvelopeWire(FailureWire, <<>>)
      s == EnvelopeWire(SuccessWire(<<>>), <<>>)
  IN { <<>>, Take(w, 5), Take(w, 7), Take(w, 8), Take(w, 60),
       <<67>> \o Tail(w), Take(w, 7) \o <<1>> \o Drop(w, 8),
       w \o <<64>>, s \o <<64>>,
       EnvelopeWire(<<0, 163, 1, 120>> \o ListWire(192, 1, <<64>>), <<>>),
       EnvelopeWire(<<0, 83, 1>> \o ListWire(192, 1, <<64>>), <<>>) }
UndecodableReplies == { Reply("undecodable", "frame", <<b>>, <<>>) : b \in Undecodable }

\* a frame without a body; the end of the stream and an error of the codec
NoBodyReplies == { Reply("nobody", "frame", <<>>, <<>>) }
TransportReplies == { Reply("transport", n, <<>>, <<>>) : n \in {"none", "err"} }

Replies ==
  SuccessReplies \cup FailureReplies \cup UndecodableReplies \cup NoBodyReplies
    \cup TransportReplies

ReplyInit ==
  /\ cframe \in Replies
  /\ cpc = "called" /\ cbytes = NoBytes /\ cres = NoItem
  /\ StreamOff
  /\ DriverOff

\* the call ends and the caller asks for the response
Respond ==
  /\ cpc = "called"
  /\ cres' = Outcome(cframe)
  /\ cpc' = "answered"
  /\ UNCHANGED <<cframe, cbytes>>
  /\ UNCHANGED <<svars, dvars>>

ReplyNext == Respond

ReplySpec == ReplyInit /\ [][ReplyNext]_vars

\* what the caller can tell outcomes apart by
Tag(r) == <<r.st, r.e>>

\* C26: a reply that decodes to Try.Failure is reported to the caller as an
\* outcome of its own: not the one reported for a transport error, for a
\* frame without a body or for a reply that does not decode, and not a
\* success.
C26_OutcomesDistinct ==
  (cpc = "answered" /\ cframe.case = "failure")
  => /\ cres.st = "err"
     /\ \A x \in UndecodableReplies \cup NoBodyReplies \cup TransportReplies :
          Tag(Outcome(x)) # Tag(cres)

\* a reply that decoded to Try::Failure was answered with Err(())
C26_FailureAsError ==
  /\ cpc = "answered" /\ cframe.case = "failure"
  /\ Envelope_decode(cframe.body[1]).st = "ok"
  /\ Envelope_decode(cframe.body[1]).v[1].var = "Failure"
  /\ cres = RErr

\* C26, the success: the value of Try::Success is what the caller gets
C26_SuccessValue ==
  (cpc = "answered" /\ cframe.case = "success") => cres = ROk(cframe.nodes)

----------------------------------------------------------------------------
(* The steps of the driver.                                                *)

ioVars == <<sent, rxn, opRx, io, unexpected, errSeen, reply>>
ctlVars == <<pc, caller, op, arg, result, okAfterErr, newResult, callResult, uuids,
             requests>>
fixVars == <<program, ops, calls, rcvName>>

\* the codec pipeline does not run beside the driver
CodecOff ==
  /\ cpc = "off" /\ cframe = NoFrame /\ cbytes = NoBytes /\ cres = NoItem
  /\ StreamOff

Init ==
  /\ CodecOff
  /\ program \in {"amqp", "corda"}
  /\ pc = "connect" /\ op = "connect"
  /\ caller = IF program = "corda" THEN "new" ELSE "app"
  /\ arg = NoFrame /\ result = "none" /\ sent = <<>> /\ rxn = 0 /\ opRx = <<>>
  /\ io = "down" /\ unexpected = 0 /\ errSeen = FALSE /\ okAfterErr = FALSE
  /\ ops = 0 /\ newResult = "none" /\ callResult = "none" /\ calls = 0
  /\ reply = NoReply /\ uuids = 0 /\ requests = <<>> /\ rcvName = <<>>

\* the operation goes on to its await l
Goto(l) ==
  /\ pc' = l
  /\ UNCHANGED <<caller, op, arg, result, okAfterErr, newResult, callResult, uuids,
                 requests>>

\* Client::new goes on after the driver operation op returned res: the ?
\* after each call, then the next call or Ok(Self { .. })
NewContinue(res) ==
  /\ UNCHANGED <<callResult, requests>>
  /\ IF res = "ok" /\ op # "attach"
     THEN /\ op' = NewNext(op)
          /\ pc' = FirstStep(NewNext(op))
          /\ arg' = NewArg(NewNext(op))
          /\ uuids' = IF NewNext(op) = "attach" THEN uuids + 1 ELSE uuids
          /\ UNCHANGED <<caller, newResult>>
     ELSE /\ newResult' = res
          /\ caller' = "app"
          /\ pc' = IF res = "ok" THEN "idle" ELSE "exited"
          /\ UNCHANGED <<op, arg, uuids>>

\* Client::call goes on after the driver operation op returned res
CallContinue(res) ==
  /\ UNCHANGED newResult
  /\ IF res = "ok" /\ op = "attach"
     THEN /\ op' = "flow" /\ pc' = "flow_send"
          /\ arg' = AmqpFrame("Flow", Flow, <<>>)
          /\ UNCHANGED <<caller, callResult, uuids, requests>>
     ELSE IF res = "ok" /\ op = "flow"
     THEN /\ op' = "transfer" /\ pc' = "transfer_send"
          /\ arg' = CallTransfer(uuids, rcvName)
          /\ uuids' = uuids + 3
          /\ requests' = Append(requests, properties(UuidStr(uuids + 1), UuidStr(uuids + 2)))
          /\ UNCHANGED <<caller, callResult>>
     ELSE IF res = "ok" /\ op = "transfer"
     THEN /\ op' = "next" /\ pc' = "next_recv"
          /\ UNCHANGED <<caller, arg, callResult, uuids, requests>>
     ELSE \* the ? after attach and flow, the unwrap() after transfer, the
          \* match on what next() returned
          /\ callResult' = IF op = "transfer" /\ res = "err" THEN "panic" ELSE res
          /\ pc' = IF res = "panic" \/ op = "transfer" THEN "panicked" ELSE "idle"
          /\ caller' = "app"
          /\ UNCHANGED <<op, arg, uuids, requests>>

\* the running driver operation returns Ok(()) or Err(()), or panics
Finish(res) ==
  /\ result' = res
  /\ okAfterErr' = (okAfterErr \/ (res = "ok" /\ errSeen'))
  /\ CASE caller = "app" ->
            /\ pc' = IF res = "panic" THEN "panicked" ELSE "idle"
            /\ UNCHANGED <<caller, op, arg, newResult, callResult, uuids, requests>>
       [] caller = "new" -> NewContinue(res)
       [] caller = "call" -> CallContinue(res)

\* self.transport.send(&frame).await.map_err(|_| ())?, then the await l, or
\* the return of Ok(()) when l is "return".  Codec::encode panics when the
\* frame does not serialize; the write fails when the connection is down,
\* and the connection may go down at any write.
Send(frame, first, l) ==
  /\ UNCHANGED <<rxn, unexpected, errSeen, reply>>
  /\ opRx' = IF first THEN <<>> ELSE opRx
  /\ IF Codec_encode(frame).st # "ok"
     THEN UNCHANGED <<sent, io>> /\ Finish("panic")
     ELSE \/ /\ io # "down"
             /\ sent' = Append(sent, [frame |-> frame, rx |-> rxn, call |-> calls])
             /\ UNCHANGED io
             /\ IF l = "return" THEN Finish("ok") ELSE Goto(l)
          \/ /\ io' = "down"
             /\ UNCHANGED sent
             /\ Finish("err")

\* self.transport.next().await yields Some(i), a frame or the error of
\* Codec::decode; the stream goes on after an error
Yield(i, first) ==
  /\ io = "up"
  /\ Foreseen(pc, i) \/ unexpected < MaxUnexpected
  /\ rxn' = rxn + 1
  /\ opRx' = Append(IF first THEN <<>> ELSE opRx, [idx |-> rxn + 1, item |-> i])
  /\ unexpected' = IF Foreseen(pc, i) THEN unexpected ELSE unexpected + 1
  /\ errSeen' = (errSeen \/ CarriesError(i))
  /\ UNCHANGED <<sent, io>>

\* self.transport.next().await yields None: the peer has closed the stream
StreamEnd(first) ==
  /\ io' = IF io = "up" THEN "eof" ELSE io
  /\ opRx' = IF first THEN <<>> ELSE opRx
  /\ UNCHANGED <<sent, rxn, unexpected, errSeen>>

\* let _ = self.transport.next().await.ok_or(()).map_err(|_| ())?, then the
\* await l, or the return of Ok(()) when l is "return"
Receive(l) ==
  /\ UNCHANGED reply
  /\ \/ \E i \in PeerItems :
          /\ Yield(i, FALSE)
          /\ IF l = "return" THEN Finish("ok") ELSE Goto(l)
     \/ StreamEnd(FALSE) /\ Finish("err")

\* the frames the program hands to the driver when it calls it itself
AppAttach(role) ==
  AmqpFrame("Attach", Attach(<<108>>, 0, role, Container, RpcServer, <<0>>), <<>>)
AppTransfers ==
  { AmqpFrame("Transfer", Transfer(<<7>>), <<Message>>),
    AmqpFrame("Transfer", Transfer(<<7>>),
              <<[Message EXCEPT !.body = <<[var |-> "Data", val |-> Request]>>]>>) }
AppCalls ==
  { [op |-> "attach", arg |-> AppAttach(role)] : role \in {Sender, Receiver} }
  \cup { [op |-> "flow", arg |-> AmqpFrame("Flow", Flow, <<>>)] }
  \cup { [op |-> "transfer", arg |-> t] : t \in AppTransfers }
  \cup { [op |-> "next", arg |-> NoFrame] }

\* Client::connect: TcpStream::connect succeeds or not
Connect ==
  /\ pc = "connect"
  /\ UNCHANGED <<sent, rxn, opRx, unexpected, errSeen, reply>>
  /\ \/ io' = "up" /\ Finish("ok")
     \/ io' = "down" /\ Finish("err")
  /\ UNCHANGED <<fixVars, cvars>>

\* the program calls the driver: login, open and begin in this order, each
\* once the call before it returned Ok, then any of attach, flow, transfer
\* and next
AppInvoke ==
  /\ program = "amqp" /\ pc = "idle" /\ ops < MaxOps
  /\ \E c \in AppCalls \cup { [op |-> NewNext(o), arg |-> NewArg(NewNext(o))] :
                               o \in {"connect", "login", "open"} } :
       /\ IF op \in {"connect", "login", "open"}
          THEN result = "ok" /\ c.op = NewNext(op)
          ELSE (op = "begin" => result = "ok") /\ c \in AppCalls
       /\ op' = c.op /\ arg' = c.arg /\ pc' = FirstStep(c.op)
  /\ ops' = ops + 1
  /\ result' = "none"
  /\ UNCHANGED <<caller, okAfterErr, newResult, callResult, uuids, requests>>
  /\ UNCHANGED <<ioVars, program, calls, rcvName, cvars>>

\* Client::call up to its first await; r is the random number of the
\* receiving queue's name
Call ==
  /\ program = "corda" /\ pc = "idle" /\ newResult = "ok" /\ calls < MaxCalls
  /\ \E r \in Rands :
       /\ rcvName' = rcv_queue_name(r)
       /\ arg' = CallAttach(rcv_queue_name(r))
  /\ calls' = calls + 1
  /\ caller' = "call" /\ op' = "attach" /\ pc' = "attach_send"
  /\ result' = "none" /\ callResult' = "none"
  /\ UNCHANGED <<okAfterErr, newResult, uuids, requests>>
  /\ UNCHANGED <<ioVars, program, ops, cvars>>

\* the program catches the panic (catch_unwind, or the JoinHandle of the
\* task) and keeps the client
CatchUnwind ==
  /\ pc = "panicked"
  /\ pc' = "idle"
  /\ UNCHANGED <<caller, op, arg, result, okAfterErr, newResult, callResult, uuids,
                 requests>>
  /\ UNCHANGED <<ioVars, fixVars, cvars>>

LoginSendSaslHeader ==
  /\ pc = "login_send_sasl"
  /\ Send(HeaderFrame("Sasl"), TRUE, "login_recv_header")
  /\ UNCHANGED <<fixVars, cvars>>

LoginRecvHeader ==
  /\ pc = "login_recv_header"
  /\ Receive("login_recv_mechanisms")
  /\ UNCHANGED <<fixVars, cvars>>

LoginRecvMechanisms ==
  /\ pc = "login_recv_mechanisms"
  /\ Receive("login_send_init")
  /\ UNCHANGED <<fixVars, cvars>>

LoginSendInit ==
  /\ pc = "login_send_init"
  /\ Send(InitFrame(User, Password), FALSE, "login_recv_outcome")
  /\ UNCHANGED <<fixVars, cvars>>

LoginRecvOutcome ==
  /\ pc = "login_recv_outcome"
  /\ Receive("login_recv_amqp")
  /\ UNCHANGED <<fixVars, cvars>>

LoginRecvAmqpHeader ==
  /\ pc = "login_recv_amqp"
  /\ Receive("login_send_amqp")
  /\ UNCHANGED <<fixVars, cvars>>

LoginSendAmqpHeader ==
  /\ pc = "login_send_amqp"
  /\ Send(HeaderFrame("Amqp"), FALSE, "return")
  /\ UNCHANGED <<fixVars, cvars>>

OpenSend ==
  /\ pc = "open_send"
  /\ Send(arg, TRUE, "open_recv")
  /\ UNCHANGED <<fixVars, cvars>>

OpenRecv ==
  /\ pc = "open_recv"
  /\ Receive("return")
  /\ UNCHANGED <<fixVars, cvars>>

BeginSend ==
  /\ pc = "begin_send"
  /\ Send(arg, TRUE, "begin_recv")
  /\ UNCHANGED <<fixVars, cvars>>

BeginRecv ==
  /\ pc = "begin_recv"
  /\ Receive("return")
  /\ UNCHANGED <<fixVars, cvars>>

AttachSend ==
  /\ pc = "attach_send"
  /\ Send(arg, TRUE, "attach_recv")
  /\ UNCHANGED <<fixVars, cvars>>

AttachRecv ==
  /\ pc = "attach_recv"
  /\ Receive(IF is_sender(arg) THEN "attach_recv_flow" ELSE "return")
  /\ UNCHANGED <<fixVars, cvars>>

AttachRecvFlow ==
  /\ pc = "attach_recv_flow"
  /\ Receive("return")
  /\ UNCHANGED <<fixVars, cvars>>

FlowSend ==
  /\ pc = "flow_send"
  /\ Send(arg, TRUE, "return")
  /\ UNCHANGED <<fixVars, cvars>>

TransferSend ==
  /\ pc = "transfer_send"
  /\ Send(arg, TRUE, "transfer_recv")
  /\ UNCHANGED <<fixVars, cvars>>

TransferRecv ==
  /\ pc = "transfer_recv"
  /\ Receive("return")
  /\ UNCHANGED <<fixVars, cvars>>

\* Client::next: what the stream yields is what the caller gets
NextRecv ==
  /\ pc = "next_recv"
  /\ \/ \E i \in PeerItems :
          /\ Yield(i, TRUE)
          /\ reply' = i
          /\ Finish(IF i.st = "ok" THEN "ok" ELSE "err")
     \/ StreamEnd(TRUE) /\ reply' = NoReply /\ Finish("err")
  /\ UNCHANGED <<fixVars, cvars>>

Next ==
  \/ Connect \/ AppInvoke \/ Call \/ CatchUnwind
  \/ LoginSendSaslHeader \/ LoginRecvHeader \/ LoginRecvMechanisms \/ LoginSendInit
  \/ LoginRecvOutcome \/ LoginRecvAmqpHeader \/ LoginSendAmqpHeader
  \/ OpenSend \/ OpenRecv \/ BeginSend \/ BeginRecv
  \/ AttachSend \/ AttachRecv \/ AttachRecvFlow
  \/ FlowSend \/ TransferSend \/ TransferRecv \/ NextRecv

Spec == Init /\ [][Next]_vars

----------------------------------------------------------------------------
(* Properties of the driver, read where the program called it itself and   *)
(* the call has returned.                                                  *)

\* the driver operation o, called by the program, has returned r
Returned(o, r) == program = "amqp" /\ pc = "idle" /\ op = o /\ result = r

IsAmqpHeaderSent(s) == s.frame.type = "Header" /\ s.frame.protocol = "Amqp"

\* C2: login returns success only if the third frame it receives is a SASL
\* Outcome of code Ok; when the third frame is anything else, login does not
\* return success and the AMQP protocol header is not sent.
C2_LoginAuthenticates ==
  (program = "amqp" /\ op = "login" /\ pc # "login_send_sasl" /\ Len(opRx) >= 3
     /\ ~IsOutcomeOk(opRx[3].item))
  => /\ ~Returned("login", "ok")
     /\ \A k \in 1..Len(sent) : ~IsAmqpHeaderSent(sent[k])

\* the peer answers SaslInit with an Outcome of code Auth and login returns Ok
C2_AuthAccepted ==
  /\ Returned("login", "ok")
  /\ IsSasl(opRx[3].item, "Outcome") /\ opRx[3].item.frame.frame.val[1] = 1
  /\ IsAmqpHeaderSent(sent[Len(sent)])

\* C3: after a successful login the driver has consumed exactly four frames,
\* a SASL header, a Mechanisms, an Outcome(ok) and an AMQP header in this
\* order, and has sent exactly SASL header, SaslInit(PLAIN), AMQP header, the
\* SaslInit after two frames were received, the AMQP header after all four.
C3_LoginExchange ==
  Returned("login", "ok")
  => /\ Len(opRx) = 4 /\ rxn = 4
     /\ IsHeader(opRx[1].item, "Sasl")
     /\ IsSasl(opRx[2].item, "Mechanisms")
     /\ IsOutcomeOk(opRx[3].item)
     /\ IsHeader(opRx[4].item, "Amqp")
     /\ Len(sent) = 3
     /\ sent[1].frame = HeaderFrame("Sasl") /\ sent[1].rx = 0
     /\ sent[2].frame.type = "Sasl" /\ sent[2].frame.frame.var = "Init"
     /\ sent[2].frame.frame.val[1] = 1 /\ sent[2].rx = 2
     /\ sent[3].frame = HeaderFrame("Amqp") /\ sent[3].rx = 4

\* login returned Ok, the counts and the order being those of C3, and the
\* second frame it consumed was no Mechanisms
C3_NoMechanisms ==
  /\ Returned("login", "ok")
  /\ Len(opRx) = 4 /\ Len(sent) = 3 /\ sent[2].rx = 2 /\ sent[3].rx = 4
  /\ ~IsSasl(opRx[2].item, "Mechanisms")

\* C4, as stated: after a successful attach with role Sender the Flow the
\* peer sent after its Attach reply has not been consumed by attach.
C4_FlowUnread ==
  (Returned("attach", "ok") /\ is_sender(arg))
  => \A k \in 2..Len(opRx) :
       ~(IsPerformative(opRx[k - 1].item, "Attach") /\ IsPerformative(opRx[k].item, "Flow"))

\* C4: a successful attach with role Sender has consumed exactly two frames,
\* the peer's reply and the frame after it (the peer's Flow); a successful
\* attach with role Receiver exactly one.  What next() then returns is the
\* frame that follows in the stream.
C4_SenderAttachReadsFlow ==
  /\ Returned("attach", "ok")
     => /\ Len(opRx) = IF arg.performative.val[3] = Sender THEN 2 ELSE 1
        /\ \A k \in 1..Len(opRx) : opRx[k].idx = rxn - Len(opRx) + k
  /\ Returned("next", "ok")
     => Len(opRx) = 1 /\ opRx[1].idx = rxn /\ reply = opRx[1].item

\* a sender's attach has returned Ok, having consumed the peer's Attach and
\* the Flow after it
C4_FlowConsumed ==
  /\ Returned("attach", "ok") /\ arg.performative.val[3] = Sender
  /\ Len(opRx) = 2
  /\ IsPerformative(opRx[1].item, "Attach") /\ IsPerformative(opRx[2].item, "Flow")

\* C5: once the peer has sent a Close, Detach or Disposition carrying an
\* Error, the operation waiting for the reply fails and no later operation
\* of the driver succeeds.
C5_PeerErrorsTerminal == errSeen => ~okAfterErr

\* open returned Ok on a Close that carries an Error
C5_CloseAccepted ==
  /\ Returned("open", "ok")
  /\ Len(opRx) = 1 /\ IsPerformative(opRx[1].item, "Close") /\ CarriesError(opRx[1].item)

\* C6: transfer returns success only when the one frame it consumed after
\* sending Transfer and Message is a Disposition.
C6_TransferDisposition ==
  Returned("transfer", "ok")
  => Len(opRx) = 1 /\ IsPerformative(opRx[1].item, "Disposition")

\* transfer returned Ok on a Flow
C6_FlowAccepted ==
  /\ Returned("transfer", "ok")
  /\ Len(opRx) = 1 /\ IsPerformative(opRx[1].item, "Flow")

\* the frames an operation waits for
Awaited(o, frame) ==
  CASE o = "login" -> 4
    [] o = "attach" -> IF is_sender(frame) THEN 2 ELSE 1
    [] OTHER -> 1

\* C28: login, open, begin, attach and transfer return success only when
\* every frame they waited for was received and decoded: an operation that
\* met the end of the stream or an error of the codec returns an error.
C28_ReceiveFailuresReported ==
  \A o \in {"login", "open", "begin", "attach", "transfer"} :
    Returned(o, "ok")
    => /\ Len(opRx) = Awaited(o, arg)
       /\ \A k \in 1..Len(opRx) : opRx[k].item.st = "ok"

\* open returned Ok on an error of the codec
C28_DecodeErrorAccepted ==
  /\ Returned("open", "ok")
  /\ Len(opRx) = 1 /\ opRx[1].item.st = "err"

\* C28, the end of the stream: an operation that met it returns an error
C28_StreamEndReported ==
  (io = "eof" /\ op \in {"login", "open", "begin", "attach", "transfer"}
     /\ pc \in {"idle", "exited"} /\ Len(opRx) < Awaited(op, arg))
  => result # "ok"

----------------------------------------------------------------------------
(* Properties of the Corda client.                                         *)

\* what a sent frame is: the protocol of a header, the variant of a SASL
\* frame, the variant of a performative
SentKind(f) ==
  CASE f.type = "Header" -> f.protocol
    [] f.type = "Sasl" -> f.frame.var
    [] f.type = "Amqp" -> f.performative.var

SetupOrder == <<"Sasl", "Init", "Amqp", "Open", "Begin", "Attach">>

SetupOrdered ==
  program = "corda"
  => /\ \A k \in 1..Len(sent) : k <= Len(SetupOrder) => SentKind(sent[k].frame) = SetupOrder[k]
     /\ caller = "new" => Len(sent) <= Len(SetupOrder)
     /\ newResult = "ok" => Len(sent) >= Len(SetupOrder)
     \* Open after the four frames of login and the AMQP header
     /\ Len(sent) >= 4 => sent[3].rx = 4 /\ sent[4].rx = 4
     \* Begin after the reply to Open, Attach after the reply to Begin
     /\ Len(sent) >= 5 => sent[5].rx = 5
     /\ Len(sent) >= 6 => /\ sent[6].rx = 6
                          /\ sent[6].frame.performative.val[2] = 0
                          /\ sent[6].frame.performative.val[3] = Sender
                          /\ sent[6].frame.performative.val[7][1][1] = <<RpcServer>>
     /\ newResult = "err" => pc = "exited"

\* C7: Client::new sends SASL header, SaslInit, AMQP header, Open, Begin,
\* Attach(Sender, handle 0, target rpc.server) in this order, Open after
\* login completed, Begin after the reply to Open was consumed, Attach after
\* the reply to Begin was consumed; when a step returns an error new returns
\* an error and no later frame is sent.
C7_SetupOrder ==
  /\ []SetupOrdered
  /\ [][(caller = "new" /\ result' = "err") => (newResult' = "err" /\ sent' = sent)]_vars
  /\ [][newResult = "err" => sent' = sent]_vars

\* Client::new has returned its client, six frames sent
C7_ClientBuilt == program = "corda" /\ newResult = "ok" /\ Len(sent) = 6 /\ calls = 0

\* the running call has sent the performative variant
CallSent(variant) ==
  \E k \in 1..Len(sent) :
    /\ sent[k].call = calls /\ calls > 0
    /\ sent[k].frame.type = "Amqp" /\ sent[k].frame.performative.var = variant

\* C8: a call that has sent its Attach and its Flow sends the request
\* Transfer, consumes the acknowledgement, then reads exactly one more frame
\* and returns it as the reply, whatever its message-id or handle.
C8_ReplySelection ==
  (program = "corda" /\ caller = "app" /\ callResult # "none" /\ CallSent("Flow")
     /\ io = "up")
  => /\ CallSent("Transfer")
     /\ op = "next" /\ Len(opRx) <= 1
     /\ callResult = "ok" => reply = opRx[1].item /\ opRx[1].idx = rxn

\* the call has unwound in transfer, the connection up and the Flow sent
C8_CallUnwound ==
  /\ program = "corda" /\ callResult = "panic" /\ op = "transfer" /\ io = "up"
  /\ CallSent("Flow") /\ ~CallSent("Transfer")

IsAttachOn(f, h) ==
  f.type = "Amqp" /\ f.performative.var = "Attach" /\ f.performative.val[2] = h
IsDetachOn(f, h) ==
  f.type = "Amqp" /\ f.performative.var = "Detach" /\ f.performative.val[1] = h
\* handle h is bound when the k-th frame is sent
BoundBefore(h, k) ==
  \E j \in 1..(k - 1) :
    /\ IsAttachOn(sent[j].frame, h)
    /\ \A m \in (j + 1)..(k - 1) : ~IsDetachOn(sent[m].frame, h)
LinkHandles == {0, 1}

\* C9: every handle of a Flow or Transfer the client sends was bound by an
\* earlier Attach, and no Attach is sent for a handle that is still bound.
C9_LinkHandles ==
  program = "corda"
  => \A k \in 1..Len(sent) : \A h \in LinkHandles :
       LET f == sent[k].frame IN
         /\ IsAttachOn(f, h) => ~BoundBefore(h, k)
         /\ (f.type = "Amqp" /\ f.performative.var = "Flow" /\ f.performative.val[5] = <<h>>)
            => BoundBefore(h, k)
         /\ (f.type = "Amqp" /\ f.performative.var = "Transfer" /\ f.performative.val[1] = h)
            => BoundBefore(h, k)

\* two calls have each sent an Attach for handle 1
C9_AttachedTwice ==
  /\ program = "corda"
  /\ \E j, k \in 1..Len(sent) :
       /\ j < k /\ sent[j].call = 1 /\ sent[k].call = 2
       /\ IsAttachOn(sent[j].frame, 1) /\ IsAttachOn(sent[k].frame, 1)

\* C10: rpc-session-id has the same value in every request of one client,
\* rpc-id a fresh value in every call.
C10_SessionIdStable ==
  \A i, j \in 1..Len(requests) :
    /\ Lookup(requests[i], KeyRpcSessionId) = Lookup(requests[j], KeyRpcSessionId)
    /\ i # j => Lookup(requests[i], KeyRpcId) # Lookup(requests[j], KeyRpcId)

\* two calls of one client have built their requests
C10_TwoRequests == program = "corda" /\ Len(requests) = 2 /\ calls = 2

====
